---- MODULE Spec2Model ----
(***************************************************************************)
(* A model of the latentia optimization core (internal/analyze, the        *)
(* document chunker of internal/rag): the OptimizationEngine pipeline and  *)
(* its review operations over the app_rewrites table, the LLM response     *)
(* parser, the confidence scorer, the query analyzer and chunkText.        *)
(*                                                                         *)
(* Text is modelled as Go sees it: a sequence of bytes, each byte a        *)
(* one-character string (the backtick and bytes outside printable ASCII  *)
(* are written "xHH": "x60" is the backtick).           *)
(* Confidence scores are kept in hundredths (0.5 is 50).                   *)
(* The record store is modelled by the effect of the SQL statements the    *)
(* engine sends; the store itself is taken to be available.                *)
(*                                                                         *)
(* The specifications share the variables:                                 *)
(*   Spec        the engine: OptimizeQuery step by step, the review calls  *)
(*   ChunkSpec   one call of chunkText, one step per pass of its loop      *)
(*   ScoreSpec   steps 5 and 6 of OptimizeQuery for arbitrary patterns and *)
(*               parsed responses                                          *)
(*   AnalyzeSpec repeated calls of AnalyzeQuery on one statement           *)
(*   StoreSpec   the document store: addDocument and Search                *)
(*   EmbedSpec   one call of Embed on a list of texts                      *)
(*   ReadSpec    GetOptimizationByID and ListPendingOptimizations next to  *)
(*               the review calls, over tables of stored results           *)
(*   RoundTripSpec  steps 5 and 6 of OptimizeQuery, then                   *)
(*               GetOptimizationByID                                       *)
(*   PatternSpec one call of AnalyzeQuery on statements that exercise      *)
(*               every test of the detectors                               *)
(*   BuilderSpec one call of buildSearchQuery on a pattern                 *)
(*   RaceSpec    concurrent review calls, one step per statement           *)
(*   MockSpec    OptimizeQuery with the MockGenerator                      *)
(***************************************************************************)
EXTENDS Integers, Sequences, FiniteSets, TLC

(***************************************************************************)
(* Byte-string helpers: the parts of Go's strings package the code uses.   *)
(***************************************************************************)

\* s[i:] starts with sub (i is a 1-based position; i = Len(s)+1 is the end)
HasPrefixAt(s, i, sub) ==
    /\ i >= 1
    /\ i + Len(sub) - 1 <= Len(s)
    /\ \A k \in 1..Len(sub) : s[i + k - 1] = sub[k]

\* position of the first occurrence of sub at or after from, 0 when there is none
IndexFrom(s, from, sub) ==
    LET to == Len(s) - Len(sub) + 1
    IN  IF \E i \in from..to : HasPrefixAt(s, i, sub)
        THEN CHOOSE i \in from..to :
               /\ HasPrefixAt(s, i, sub)
               /\ \A j \in from..(i - 1) : ~HasPrefixAt(s, j, sub)
        ELSE 0

\* strings.Contains
Contains(s, sub) == IndexFrom(s, 1, sub) # 0

\* strings.Count for a non-empty sub: non-overlapping occurrences, left to right
RECURSIVE CountFrom(_, _, _)
CountFrom(s, from, sub) ==
    LET i == IndexFrom(s, from, sub)
    IN  IF i = 0 THEN 0 ELSE 1 + CountFrom(s, i + Len(sub), sub)

Count(s, sub) == CountFrom(s, 1, sub)

\* strings.ReplaceAll(s, old, "") for a non-empty old
RECURSIVE RemoveAllFrom(_, _, _)
RemoveAllFrom(s, from, old) ==
    LET i == IndexFrom(s, from, old)
    IN  IF i = 0 THEN SubSeq(s, from, Len(s))
        ELSE SubSeq(s, from, i - 1) \o RemoveAllFrom(s, i + Len(old), old)

RemoveAll(s, old) == RemoveAllFrom(s, 1, old)

\* strings.ReplaceAll(s, "\n", " "): a byte-for-byte replacement
ReplaceByte(s, old, new) == [i \in 1..Len(s) |-> IF s[i] = old THEN new ELSE s[i]]

UpperLetters ==
    <<"A","B","C","D","E","F","G","H","I","J","K","L","M",
      "N","O","P","Q","R","S","T","U","V","W","X","Y","Z">>
LowerLetters ==
    <<"a","b","c","d","e","f","g","h","i","j","k","l","m",
      "n","o","p","q","r","s","t","u","v","w","x","y","z">>
Digits == {"0","1","2","3","4","5","6","7","8","9"}

UpperSet == {UpperLetters[i] : i \in 1..Len(UpperLetters)}
LowerSet == {LowerLetters[i] : i \in 1..Len(LowerLetters)}
LowerOf ==
    [c \in UpperSet |->
        LowerLetters[CHOOSE i \in 1..Len(UpperLetters) : UpperLetters[i] = c]]

IsLetter(c) == c \in UpperSet \/ c \in LowerSet

LowerByte(c) == IF c \in UpperSet THEN LowerOf[c] ELSE c

\* s[i:] starts with sub when letter case is ignored (sub is in lower case)
HasPrefixFoldAt(s, i, sub) ==
    /\ i >= 1
    /\ i + Len(sub) - 1 <= Len(s)
    /\ \A k \in 1..Len(sub) : LowerByte(s[i + k - 1]) = sub[k]

\* strings.ToLower (ASCII letters; other bytes are kept)
ToLower(s) == [i \in 1..Len(s) |-> LowerByte(s[i])]

\* \s of Go's regexp (RE2): [\t\n\f\r ]
RegexSpace == {" ", "\t", "\n", "\f", "\r"}
\* unicode.IsSpace on single bytes: \s plus the vertical tab (byte 0x0B)
UnicodeSpace == RegexSpace \cup {"x0B"}
\* \w of Go's regexp: [0-9A-Za-z_]
WordBytes == UpperSet \cup LowerSet \cup Digits \cup {"_"}
IsWord(c) == c \in WordBytes

\* first position at or after i that holds no byte of set (Len(s)+1 at the end)
SkipForward(s, i, set) ==
    IF i > Len(s) THEN i
    ELSE CHOOSE e \in i..(Len(s) + 1) :
           /\ e > Len(s) \/ s[e] \notin set
           /\ \A j \in i..(e - 1) : s[j] \in set

\* last position at or before i that holds no byte of set (0 at the start)
SkipBackward(s, i, set) ==
    IF \A j \in 1..i : s[j] \in set THEN 0
    ELSE CHOOSE e \in 1..i :
           /\ s[e] \notin set
           /\ \A j \in (e + 1)..i : s[j] \in set

\* strings.TrimSpace
TrimSpace(s) ==
    SubSeq(s, SkipForward(s, 1, UnicodeSpace), SkipBackward(s, Len(s), UnicodeSpace))

\* first position at or after i that does not hold a \s byte (Len(s)+1 at the end)
SkipSpace(s, i) == SkipForward(s, i, RegexSpace)

\* \b of Go's regexp between positions i-1 and i
WordBoundary(s, i) ==
    LET before == i >= 2 /\ i - 1 <= Len(s) /\ IsWord(s[i - 1])
        after  == i >= 1 /\ i <= Len(s) /\ IsWord(s[i])
    IN  before # after

(***************************************************************************)
(* Query analyzer (internal/analyze/patterns.go).                          *)
(***************************************************************************)

\* one alternative WORD\s+JOIN of joinRegex tried at i: the end of the match (the
\* position after it), 0 when it does not match; word = <<>> is the bare JOIN
JoinAlternativeEnd(s, i, word) ==
    LET j   == i + Len(word)
        k   == IF word = <<>> THEN i ELSE SkipSpace(s, j)
    IN  IF /\ HasPrefixFoldAt(s, i, word)
           /\ (word = <<>> \/ k > j)
           /\ HasPrefixFoldAt(s, k, <<"j","o","i","n">>)
           /\ WordBoundary(s, k + 4)
        THEN k + 4 ELSE 0

\* joinRegex (?i)\b(INNER\s+JOIN|LEFT\s+JOIN|RIGHT\s+JOIN|FULL\s+JOIN|JOIN)\b at i
joinRegexEnd(s, i) ==
    LET alts == <<<<"i","n","n","e","r">>, <<"l","e","f","t">>, <<"r","i","g","h","t">>, <<"f","u","l","l">>, <<>>>>
        ok   == {a \in 1..Len(alts) : JoinAlternativeEnd(s, i, alts[a]) # 0}
    IN  IF ~WordBoundary(s, i) \/ ok = {} THEN 0
        ELSE JoinAlternativeEnd(s, i, alts[CHOOSE a \in ok : \A b \in ok : a <= b])

\* len(qa.joinRegex.FindAllString(sql, -1)): non-overlapping matches, left to right
RECURSIVE joinCountFrom(_, _)
joinCountFrom(s, i) ==
    IF \A x \in i..Len(s) : joinRegexEnd(s, x) = 0 THEN 0
    ELSE LET m == CHOOSE x \in i..Len(s) :
                    /\ joinRegexEnd(s, x) # 0
                    /\ \A y \in i..(x - 1) : joinRegexEnd(s, y) = 0
         IN  1 + joinCountFrom(s, joinRegexEnd(s, m))

joinCount(s) == joinCountFrom(s, 1)

\* tableRegex (?i)\b(?:FROM|JOIN)\s+([a-zA-Z_][a-zA-Z0-9_]*) at i: <<start, end>> of
\* the captured identifier (end is the position after it), <<0, 0>> when no match
tableRegexAt(s, i) ==
    LET j   == i + 4
        k   == SkipSpace(s, j)
        e   == SkipForward(s, k, WordBytes)
    IN  IF /\ WordBoundary(s, i)
           /\ \/ HasPrefixFoldAt(s, i, <<"f","r","o","m">>)
              \/ HasPrefixFoldAt(s, i, <<"j","o","i","n">>)
           /\ k > j
           /\ k <= Len(s) /\ (IsLetter(s[k]) \/ s[k] = "_")
        THEN <<k, e>> ELSE <<0, 0>>

\* the identifiers tableRegex.FindAllStringSubmatch captures, in order
RECURSIVE tableMatchesFrom(_, _)
tableMatchesFrom(s, i) ==
    IF \A x \in i..Len(s) : tableRegexAt(s, x)[1] = 0 THEN <<>>
    ELSE LET at == CHOOSE x \in i..Len(s) :
                     /\ tableRegexAt(s, x)[1] # 0
                     /\ \A y \in i..(x - 1) : tableRegexAt(s, y)[1] = 0
             m  == tableRegexAt(s, at)
         IN  <<SubSeq(s, m[1], m[2] - 1)>> \o tableMatchesFrom(s, m[2])

\* removeDuplicates: the first occurrence of each item, in order
RECURSIVE removeDuplicates(_)
removeDuplicates(slice) ==
    IF slice = <<>> THEN <<>>
    ELSE LET init == removeDuplicates(SubSeq(slice, 1, Len(slice) - 1))
             last == slice[Len(slice)]
         IN  IF \E i \in 1..Len(init) : init[i] = last THEN init
             ELSE Append(init, last)

\* extractTables: the captured names, de-duplicated in first-seen order (a captured
\* identifier holds no space, so the alias cut changes nothing)
extractTables(sql) == removeDuplicates(tableMatchesFrom(sql, 1))

\* A faulty variant of detectQueryType: the LIKE test is made before the
\* GROUP BY / ORDER BY test.
detectQueryTypeLikeFirst(sql) ==
    IF Contains(sql, <<"s","l","e","e","p","(">>) THEN "sleep-test"
    ELSE IF joinCount(sql) >= 3 THEN "complex-join"
    ELSE IF joinCount(sql) > 0 THEN "simple-join"
    ELSE IF Contains(sql, <<"l","i","k","e">>) /\ Contains(sql, <<"%">>) THEN "pattern-search"
    ELSE IF Contains(sql, <<"g","r","o","u","p"," ","b","y">>) \/ Contains(sql, <<"o","r","d","e","r"," ","b","y">>)
         THEN "aggregation"
    ELSE IF Contains(sql, <<"s","e","l","e","c","t"," ","*">>) THEN "full-select"
    ELSE IF Contains(sql, <<"w","h","e","r","e">>) THEN "filtered-select"
    ELSE "basic-select"

\* detectQueryType: the first test that holds decides
detectQueryType(sql) ==
    IF Contains(sql, <<"s","l","e","e","p","(">>) THEN "sleep-test"
    ELSE IF joinCount(sql) >= 3 THEN "complex-join"
    ELSE IF joinCount(sql) > 0 THEN "simple-join"
    ELSE IF Contains(sql, <<"g","r","o","u","p"," ","b","y">>) \/ Contains(sql, <<"o","r","d","e","r"," ","b","y">>)
         THEN "aggregation"
    ELSE IF Contains(sql, <<"l","i","k","e">>) /\ Contains(sql, <<"%">>) THEN "pattern-search"
    ELSE IF Contains(sql, <<"s","e","l","e","c","t"," ","*">>) THEN "full-select"
    ELSE IF Contains(sql, <<"w","h","e","r","e">>) THEN "filtered-select"
    ELSE "basic-select"

\* subqueryRegex \([^)]*SELECT[^)]*\) at i: the position after the match, 0 if none.
\* The regex is case-sensitive: it looks for the upper-case word.
subqueryRegexEnd(s, i) ==
    LET close == IndexFrom(s, i + 1, <<")">>)
        sel   == IndexFrom(s, i + 1, <<"S","E","L","E","C","T">>)
    IN  IF /\ i <= Len(s) /\ s[i] = "("
           /\ close # 0 /\ sel # 0 /\ sel + 6 <= close
        THEN close + 1 ELSE 0

\* len(qa.subqueryRegex.FindAllString(sql, -1))
RECURSIVE subqueryCountFrom(_, _)
subqueryCountFrom(s, i) ==
    IF \A x \in i..Len(s) : subqueryRegexEnd(s, x) = 0 THEN 0
    ELSE LET m == CHOOSE x \in i..Len(s) :
                    /\ subqueryRegexEnd(s, x) # 0
                    /\ \A y \in i..(x - 1) : subqueryRegexEnd(s, y) = 0
         IN  1 + subqueryCountFrom(s, subqueryRegexEnd(s, m))

subqueryCount(s) == subqueryCountFrom(s, 1)

\* regexp (?i)WHERE[^=]*\([^)]*\)\s*[=<>] matches somewhere in s
functionInWhere(s) ==
        \E w \in 1..Len(s) :
          /\ HasPrefixFoldAt(s, w, <<"w","h","e","r","e">>)
          /\ \E p \in (w + 5)..Len(s) :
               /\ s[p] = "("
               /\ \A x \in (w + 5)..(p - 1) : s[x] # "="
               /\ LET q == IndexFrom(s, p + 1, <<")">>)
                      r == SkipSpace(s, q + 1)
                  IN  q # 0 /\ r <= Len(s) /\ s[r] \in {"=", "<", ">"}

\* the items of a sequence of <<condition, tag>> pairs whose condition holds
RECURSIVE TagsOf(_)
TagsOf(checks) ==
    IF checks = <<>> THEN <<>>
    ELSE (IF checks[1][1] THEN <<checks[1][2]>> ELSE <<>>)
         \o TagsOf(SubSeq(checks, 2, Len(checks)))

\* detectAntiPatterns: independent checks, appended in this order
detectAntiPatterns(sql) ==
    TagsOf(<<
      <<Contains(sql, <<"s","e","l","e","c","t"," ","*">>), "select-star">>,
      <<Contains(sql, <<"l","i","k","e"," ","'","%">>), "leading-wildcard-like">>,
      <<~Contains(sql, <<"l","i","m","i","t">>)
          /\ (Contains(sql, <<"j","o","i","n">>) \/ Contains(sql, <<"o","r","d","e","r"," ","b","y">>)),
        "missing-limit">>,
      <<Contains(sql, <<" ","f","r","o","m"," ">>) /\ Count(sql, <<",">>) > 0
          /\ ~Contains(sql, <<"j","o","i","n">>),
        "cartesian-join">>,
      <<functionInWhere(sql), "function-in-where">>,
      <<subqueryCount(sql) > 0 /\ Contains(sql, <<"i","n"," ","(">>),
        "subquery-instead-of-join">>,
      <<Contains(sql, <<"o","r","d","e","r"," ","b","y">>) /\ ~Contains(sql, <<"l","i","m","i","t">>),
        "order-without-limit">> >>)

\* the technique an anti-pattern maps to (the switch of identifyOptimizations)
optimizationFor(antiPattern) ==
    CASE antiPattern = "select-star" -> <<"specify-columns">>
      [] antiPattern = "leading-wildcard-like" -> <<"optimize-like-patterns">>
      [] antiPattern = "missing-limit" -> <<"add-limit-clause">>
      [] antiPattern = "cartesian-join" -> <<"explicit-join-syntax">>
      [] antiPattern = "function-in-where" -> <<"move-functions-to-select">>
      [] antiPattern = "subquery-instead-of-join" -> <<"convert-to-join">>
      [] antiPattern = "order-without-limit" -> <<"add-result-limiting">>
      [] OTHER -> <<>>

RECURSIVE optimizationsOf(_)
optimizationsOf(antiPatterns) ==
    IF antiPatterns = <<>> THEN <<>>
    ELSE optimizationFor(antiPatterns[1])
         \o optimizationsOf(SubSeq(antiPatterns, 2, Len(antiPatterns)))

\* identifyOptimizations
identifyOptimizations(sql, antiPatterns) ==
    optimizationsOf(antiPatterns) \o TagsOf(<<
      <<Contains(sql, <<"g","r","o","u","p"," ","b","y">>), "index-group-by-columns">>,
      <<Contains(sql, <<"j","o","i","n">>), "index-join-columns">>,
      <<Contains(sql, <<"w","h","e","r","e">>) /\ ~Contains(sql, <<"i","n","d","e","x">>),
        "index-where-columns">> >>)

\* the score assessComplexity adds up
complexityScore(sql, tableCount) ==
      (IF tableCount >= 4 THEN 3 ELSE IF tableCount >= 2 THEN 1 ELSE 0)
    + joinCount(sql)
    + subqueryCount(sql) * 2
    + (IF Contains(sql, <<"g","r","o","u","p"," ","b","y">>) THEN 1 ELSE 0)
    + (IF Contains(sql, <<"h","a","v","i","n","g">>) THEN 1 ELSE 0)
    + (IF Contains(sql, <<"w","i","n","d","o","w">>) \/ Contains(sql, <<"o","v","e","r","(">>) THEN 2 ELSE 0)
    + (IF Contains(sql, <<"u","n","i","o","n">>) THEN 2 ELSE 0)

\* assessComplexity
assessComplexity(sql, tableCount) ==
    LET score == complexityScore(sql, tableCount)
    IN  IF score >= 6 THEN "complex" ELSE IF score >= 3 THEN "medium" ELSE "simple"

\* keywordMap of extractKeywords, as <<keyword, category>> entries
keywordMap ==
    << <<<<"j","o","i","n">>, "joins">>, <<<<"i","n","d","e","x">>, "indexes">>,
       <<<<"g","r","o","u","p"," ","b","y">>, "aggregation">>, <<<<"o","r","d","e","r"," ","b","y">>, "sorting">>,
       <<<<"l","i","m","i","t">>, "limiting">>, <<<<"w","h","e","r","e">>, "filtering">>,
       <<<<"h","a","v","i","n","g">>, "aggregation">>, <<<<"d","i","s","t","i","n","c","t">>, "deduplication">>,
       <<<<"u","n","i","o","n">>, "set-operations">>, <<<<"e","x","i","s","t","s">>, "subqueries">>,
       <<<<"i","n"," ","(">>, "subqueries">>, <<<<"l","i","k","e">>, "pattern-matching">> >>

\* every order in which a Go map range can visit the entries of S
RECURSIVE MapRangeOrders(_)
MapRangeOrders(S) ==
    IF S = {} THEN {<<>>}
    ELSE UNION {{<<x>> \o o : o \in MapRangeOrders(S \ {x})} : x \in S}

\* extractKeywords: the categories of the keywords present, in the order the map
\* range visits them (unspecified in Go), de-duplicated; the set of possible results
extractKeywords(sql) ==
    LET present == {e \in 1..Len(keywordMap) : Contains(sql, keywordMap[e][1])}
    IN  {removeDuplicates([i \in 1..Len(o) |-> keywordMap[o[i]][2]]) :
            o \in MapRangeOrders(present)}

\* AnalyzeQuery: the patterns a call can return for sql (one per keyword order)
AnalyzeQuery(sqlIn) ==
    LET sql      == TrimSpace(sqlIn)
        sqlLower == ToLower(sql)
        tables   == extractTables(sql)
        anti     == detectAntiPatterns(sqlLower)
        type     == detectQueryType(sqlLower)
        ops      == identifyOptimizations(sqlLower, anti)
        complex  == assessComplexity(sqlLower, Len(tables))
    IN  {[Type            |-> type,
          Tables          |-> tables,
          AntiPatterns    |-> anti,
          OptimizationOps |-> ops,
          Complexity      |-> complex,
          Keywords        |-> kw] : kw \in extractKeywords(sqlLower)}

(***************************************************************************)
(* LLM response parser and confidence scorer (internal/analyze/engine.go). *)
(***************************************************************************)

\* regexp.FindStringSubmatch for the four patterns of parseLLMResponse, all of the
\* shape  marker [\s* fence] \s* (.*?) [\s*] (?:term | ... | $)  under (?s):
\* the leftmost match, the greedy \s* before the capture as long as a match allows,
\* the lazy capture as short as it allows. found = FALSE is "no match"
\* (len(matches) = 0), text is matches[1].
regexSection(s, marker, fence, terms, spaceBeforeTerm, atEnd) ==
    LET HeadEnd(i) ==
            IF fence = <<>> THEN i + Len(marker)
            ELSE LET k == SkipSpace(s, i + Len(marker))
                 IN  IF HasPrefixAt(s, k, fence) THEN k + Len(fence) ELSE 0
        TermAt(e) ==
            LET p == IF spaceBeforeTerm THEN SkipSpace(s, e) ELSE e
            IN  \/ \E t \in 1..Len(terms) : HasPrefixAt(s, p, terms[t])
                \/ atEnd /\ e = Len(s) + 1
        \* the end of the shortest capture that starts at st, 0 when there is none
        CaptureEnd(st) ==
            IF \A e \in st..(Len(s) + 1) : ~TermAt(e) THEN 0
            ELSE CHOOSE e \in st..(Len(s) + 1) :
                   TermAt(e) /\ \A j \in st..(e - 1) : ~TermAt(j)
        \* the start of the capture: after the longest \s* a match allows
        CaptureStart(hi, lo) ==
            IF \A st \in lo..hi : CaptureEnd(st) = 0 THEN 0
            ELSE CHOOSE st \in lo..hi :
                   CaptureEnd(st) # 0 /\ \A j \in (st + 1)..hi : CaptureEnd(j) = 0
        \* the match that starts at the first marker at or after i
        RECURSIVE MatchFrom(_)
        MatchFrom(i) ==
            LET m  == IndexFrom(s, i, marker)
                h  == HeadEnd(m)
                st == CaptureStart(SkipSpace(s, h), h)
            IN  IF m = 0 THEN [found |-> FALSE, text |-> <<>>]
                ELSE IF h = 0 \/ st = 0 THEN MatchFrom(m + 1)
                ELSE [found |-> TRUE, text |-> SubSeq(s, st, CaptureEnd(st) - 1)]
    IN  MatchFrom(1)

\* the clean-up of a matched section: TrimSpace, drop the bullets, join the lines
cleanSection(m) ==
    IF m.found
    THEN ReplaceByte(RemoveAll(TrimSpace(m.text), <<"xE2","x80","xA2"," ">>), "\n", " ")
    ELSE <<>>

\* the literals of sqlRegex: PROPOSED_SQL: , ```sql and ```
sqlMarker == <<"P","R","O","P","O","S","E","D","_","S","Q","L",":">>
sqlFence == <<"x60","x60","x60","s","q","l">>
fenceEnd == <<"x60","x60","x60">>

\* sqlRegex.FindStringSubmatch(response): PROPOSED_SQL:\s*```sql\s*(.*?)\s*```
proposedSQLMatch(response) ==
    regexSection(response, sqlMarker, sqlFence, <<fenceEnd>>, TRUE, FALSE)

\* the LLMResponse parseLLMResponse fills in from the four sections
parsedSections(response) ==
    LET sqlM == proposedSQLMatch(response)
        ratM == regexSection(response, <<"R","A","T","I","O","N","A","L","E",":">>, <<>>,
                             <<<<"\n","\n">>, <<"E","X","P","E","C","T","E","D","_","P","L","A","N","_","C","H","A","N","G","E",":">>>>, FALSE, FALSE)
        planM == regexSection(response, <<"E","X","P","E","C","T","E","D","_","P","L","A","N","_","C","H","A","N","G","E",":">>, <<>>,
                              <<<<"\n","\n">>, <<"C","A","V","E","A","T","S",":">>>>, FALSE, FALSE)
        cavM == regexSection(response, <<"C","A","V","E","A","T","S",":">>, <<>>,
                             <<<<"\n","\n">>>>, FALSE, TRUE)
    IN  [ProposedSQL        |-> IF sqlM.found THEN TrimSpace(sqlM.text) ELSE <<>>,
         Rationale          |-> cleanSection(ratM),
         ExpectedPlanChange |-> cleanSection(planM),
         Caveats            |-> cleanSection(cavM)]

\* Faulty variants of parseLLMResponse: one never fails, one fails only when
\* sqlRegex does not match.
parseLLMResponseUnchecked(response) ==
    [err |-> FALSE, parsed |-> parsedSections(response)]

parseLLMResponseMatchOnly(response) ==
    [err |-> ~proposedSQLMatch(response).found,
     parsed |-> parsedSections(response)]

\* A faulty variant of parseLLMResponse: without a fenced block, the text that
\* follows the marker PROPOSED_SQL: is taken as the SQL.
parseLLMResponseUnfenced(response) ==
    LET parsed == parsedSections(response)
        m      == IndexFrom(response, 1, sqlMarker)
        sql    == IF parsed.ProposedSQL # <<>> \/ m = 0 THEN parsed.ProposedSQL
                  ELSE TrimSpace(SubSeq(response, m + Len(sqlMarker), Len(response)))
    IN  [err |-> sql = <<>>, parsed |-> [parsed EXCEPT !.ProposedSQL = sql]]

\* parseLLMResponse: err is the "failed to extract optimized SQL" return, taken
\* when ProposedSQL is left empty
parseLLMResponse(response) ==
    LET parsed == parsedSections(response)
    IN  [err |-> parsed.ProposedSQL = <<>>, parsed |-> parsed]

\* the score calculateConfidenceScore adds up before it clamps it, in hundredths
confidenceAdjustments(pattern, response) ==
              50
            + (CASE pattern.Complexity = "simple" -> 30
                 [] pattern.Complexity = "medium" -> 10
                 [] pattern.Complexity = "complex" -> -10
                 [] OTHER -> 0)
            + (IF Len(pattern.AntiPatterns) > 0 THEN 20 ELSE 0)
            + (IF Len(pattern.OptimizationOps) > 2 THEN 15 ELSE 0)
            + (IF Len(response.Rationale) > 50 THEN 10 ELSE 0)
            + (IF Len(response.ExpectedPlanChange) > 50 THEN 10 ELSE 0)
            + (IF Contains(ToLower(response.ProposedSQL), <<"i","n","d","e","x">>)
               THEN 5 ELSE 0)

\* A faulty variant of calculateConfidenceScore: the sum is not clamped.
calculateConfidenceScoreUnclamped(pattern, response) ==
    confidenceAdjustments(pattern, response)

\* A faulty variant of calculateConfidenceScore: a section of 50 bytes already
\* counts as long.
calculateConfidenceScoreFromFifty(pattern, response) ==
    LET score ==   50
                 + (CASE pattern.Complexity = "simple" -> 30
                      [] pattern.Complexity = "medium" -> 10
                      [] pattern.Complexity = "complex" -> -10
                      [] OTHER -> 0)
                 + (IF Len(pattern.AntiPatterns) > 0 THEN 20 ELSE 0)
                 + (IF Len(pattern.OptimizationOps) > 2 THEN 15 ELSE 0)
                 + (IF Len(response.Rationale) >= 50 THEN 10 ELSE 0)
                 + (IF Len(response.ExpectedPlanChange) >= 50 THEN 10 ELSE 0)
                 + (IF Contains(ToLower(response.ProposedSQL), <<"i","n","d","e","x">>)
                    THEN 5 ELSE 0)
    IN  IF score > 100 THEN 100 ELSE IF score < 10 THEN 10 ELSE score

\* calculateConfidenceScore, in hundredths: the sum clamped to [0.1, 1.0]
calculateConfidenceScore(pattern, response) ==
    LET score == confidenceAdjustments(pattern, response)
    IN  IF score > 100 THEN 100 ELSE IF score < 10 THEN 10 ELSE score

(***************************************************************************)
(* Bounds of the model and the inputs drawn from them.                     *)
(***************************************************************************)

\* rows the app_rewrites table may hold (OptimizeQuery is not started beyond it)
MaxRows == 2
\* the wall clock runs from 0 to MaxClock
MaxClock == 1
\* ids the review operations are called with: 1..MaxRows+1 (one never assigned)
ReviewIds == 1..(MaxRows + 1)
\* slow_query ids OptimizeQuery is called with
SlowQueryIds == {1}
\* chunkText is called with texts of at most MaxTextLen bytes over ChunkAlphabet,
\* chunk sizes 1..MaxChunkSize and overlaps 0..MaxOverlap, and followed for at
\* most MaxChunks passes of its loop
MaxTextLen == 4
MaxChunkSize == 3
MaxOverlap == 3
MaxChunks == 6
ChunkAlphabet == {"a", "b"}
\* the scorer is given at most MaxTags anti-patterns and opportunities and sections
\* of at most MaxSection bytes
MaxTags == 3
MaxSection == 51

\* SQL statements OptimizeQuery is called with:
\*   SELECT * FROM t
\*   select a from t1 join t2 join t3 join t4 limit 1
SqlInputs ==
    { <<"S","E","L","E","C","T"," ","*"," ","F","R","O","M"," ","t">>,
      <<"s","e","l","e","c","t"," ","a"," ","f","r","o","m"," ","t","1"," ","j","o","i","n"," ","t","2"," ","j","o","i","n"," ","t","3"," ","j","o","i","n"," ","t","4"," ","l","i","m","i","t"," ","1">> }

\* a rationale of 51 bytes, one more than the scorer's threshold
LongText == [i \in 1..51 |-> "r"]

\* texts the Generator may return:
\*   a well-formed answer with only the SQL section
\*   a well-formed answer with an index statement and long sections
\*   the marker without a fenced block (the mock generator's layout)
\*   the marker with an empty fenced block
\*   the marker with a fenced block of white space only
\*   a fenced block without the marker
\*   free text
GeneratorTexts ==
    { <<"P","R","O","P","O","S","E","D","_","S","Q","L",":","\n","x60","x60","x60","s","q","l","\n","S","E","L","E","C","T"," ","1","\n","x60","x60","x60","\n">>,
      <<"P","R","O","P","O","S","E","D","_","S","Q","L",":"," ","x60","x60","x60","s","q","l","\n","C","R","E","A","T","E"," ","I","N","D","E","X"," ","i"," ","O","N"," ","t","(","a",")","\n","x60","x60","x60","\n","\n","R","A","T","I","O","N","A","L","E",":","\n","xE2","x80","xA2"," ">>
        \o LongText \o <<"\n","\n","E","X","P","E","C","T","E","D","_","P","L","A","N","_","C","H","A","N","G","E",":","\n","xE2","x80","xA2"," ">> \o LongText
        \o <<"\n","\n","C","A","V","E","A","T","S",":","\n","xE2","x80","xA2"," ","n","o","n","e">>,
      <<"P","R","O","P","O","S","E","D","_","S","Q","L",":","\n","S","E","L","E","C","T"," ","1","\n","\n","R","A","T","I","O","N","A","L","E",":","\n","xE2","x80","xA2"," ","x","\n">>,
      <<"P","R","O","P","O","S","E","D","_","S","Q","L",":","\n","x60","x60","x60","s","q","l","x60","x60","x60","\n">>,
      <<"P","R","O","P","O","S","E","D","_","S","Q","L",":","\n","x60","x60","x60","s","q","l","\n"," ","\t","\n","x60","x60","x60","\n">>,
      <<"x60","x60","x60","s","q","l","\n","S","E","L","E","C","T"," ","1","\n","x60","x60","x60","\n">>,
      <<"n","o"," ","c","h","a","n","g","e">> }

(***************************************************************************)
(* State.                                                                  *)
(***************************************************************************)
VARIABLES
    rows,     \* the app_rewrites table: its rows in insertion order
    nextId,   \* the table's AUTO_INCREMENT counter
    clock,    \* the wall clock (time.Now() of the engine, NOW() of the store)
    pc,       \* where the in-flight OptimizeQuery call stands ("idle": none)
    call,     \* the locals of the in-flight OptimizeQuery call
    env,      \* what the collaborators did and returned during the last
              \* OptimizeQuery call
    ret,      \* what the last engine call that returned has returned
    chunker,  \* the locals of a chunkText call
    scorer,   \* the pattern and parsed response given to the scoring steps
    analyzer, \* the calls of AnalyzeQuery made on one statement
    store,    \* the document store: embedder, app_documents, app_embeddings, last call
    embedCall,\* one call of Embedder.Embed and its outcome
    builder,  \* one call of PromptBuilder.buildSearchQuery and its result
    reviews   \* the concurrent review calls, each with its position

vars == <<rows, nextId, clock, pc, call, env, ret, chunker, scorer, analyzer, store, embedCall, builder, reviews>>

\* a nullable time (the reviewed_at column, OptimizationResult.ReviewedAt)
NullTime == [Valid |-> FALSE, Time |-> 0]
TimeOf(now) == [Valid |-> TRUE, Time |-> now]

\* An error is the chain of messages fmt.Errorf("...: %w") builds, outermost
\* first; the nil error is the empty chain.
ErrNil == <<>>
ErrNotFoundOrReviewed == <<"optimization not found or already reviewed">>

NoCall == [active |-> FALSE]
NoEnv == [embed |-> "none", genCalls |-> 0, gen |-> "none", genText |-> <<>>]
\* a call's return: result is the sequence of the results returned (a nil
\* *OptimizationResult is the empty sequence)
NoRet == [op |-> "none", id |-> 0, err |-> ErrNil, result |-> <<>>]
NoChunker == [pc |-> "none"]
NoScorer == [pc |-> "none"]
NoAnalyzer == [pc |-> "none"]
NoStore == [pc |-> "none"]
NoEmbedCall == [pc |-> "none"]
NoBuilder == [pc |-> "none"]
NoReviews == [pc |-> "none"]

(***************************************************************************)
(* Review operations (engine.go, AcceptOptimization / RejectOptimization). *)
(***************************************************************************)

\* A faulty variant of the UPDATE: created_at follows the update as well (a
\* column declared ON UPDATE CURRENT_TIMESTAMP would behave so).
updateIfPendingTouchingCreatedAt(table, id, status, now) ==
    LET hit == {i \in 1..Len(table) :
                   table[i].id = id /\ table[i].status = "pending"}
    IN  [table |-> [i \in 1..Len(table) |->
                      IF i \in hit
                      THEN [table[i] EXCEPT !.status = status,
                                            !.reviewed_at = TimeOf(now),
                                            !.created_at = now]
                      ELSE table[i]],
         rowsAffected |-> Cardinality(hit)]

\* A faulty variant of the UPDATE: the status is not tested, the last writer wins.
updateLastWriterWins(table, id, status, now) ==
    LET hit == {i \in 1..Len(table) : table[i].id = id}
    IN  [table |-> [i \in 1..Len(table) |->
                      IF i \in hit
                      THEN [table[i] EXCEPT !.status = status,
                                            !.reviewed_at = TimeOf(now)]
                      ELSE table[i]],
         rowsAffected |-> Cardinality(hit)]

\* UPDATE app_rewrites SET status = <status>, reviewed_at = NOW()
\* WHERE id = ? AND status = 'pending': the table after it and RowsAffected()
updateIfPending(table, id, status, now) ==
    LET hit == {i \in 1..Len(table) :
                   table[i].id = id /\ table[i].status = "pending"}
    IN  [table |-> [i \in 1..Len(table) |->
                      IF i \in hit
                      THEN [table[i] EXCEPT !.status = status,
                                            !.reviewed_at = TimeOf(now)]
                      ELSE table[i]],
         rowsAffected |-> Cardinality(hit)]

\* Faulty variants of the two statements, without the test of the status; the
\* properties of the review operations are expected to fail for them.
acceptStatementAnyStatus(table, id, now) ==
    [table |-> [i \in 1..Len(table) |->
                  IF table[i].id = id
                  THEN [table[i] EXCEPT !.status = "accepted",
                                        !.reviewed_at = TimeOf(now)]
                  ELSE table[i]],
     rowsAffected |-> Cardinality({i \in 1..Len(table) : table[i].id = id})]

rejectStatementAnyStatus(table, id, now) ==
    [table |-> [i \in 1..Len(table) |->
                  IF table[i].id = id
                  THEN [table[i] EXCEPT !.status = "rejected",
                                        !.reviewed_at = TimeOf(now)]
                  ELSE table[i]],
     rowsAffected |-> Cardinality({i \in 1..Len(table) : table[i].id = id})]

\* the statement AcceptOptimization executes
acceptStatement(table, id, now) == updateIfPending(table, id, "accepted", now)

\* A faulty variant of the statement of RejectOptimization: reviewed_at is not
\* written.
rejectStatementWithoutReviewedAt(table, id, now) ==
    LET hit == {i \in 1..Len(table) :
                   table[i].id = id /\ table[i].status = "pending"}
    IN  [table |-> [i \in 1..Len(table) |->
                      IF i \in hit THEN [table[i] EXCEPT !.status = "rejected"]
                      ELSE table[i]],
         rowsAffected |-> Cardinality(hit)]

\* the statement RejectOptimization executes
rejectStatement(table, id, now) == updateIfPending(table, id, "rejected", now)

AcceptOptimization(id) ==
    LET result == acceptStatement(rows, id, clock)
    IN  /\ rows' = result.table
        /\ ret' = [op |-> "AcceptOptimization", id |-> id,
                   err |-> IF result.rowsAffected = 0
                           THEN ErrNotFoundOrReviewed ELSE ErrNil,
                   result |-> <<>>]
        /\ UNCHANGED <<nextId, clock, pc, call, env, chunker, scorer, analyzer, store, embedCall, builder, reviews>>

RejectOptimization(id) ==
    LET result == rejectStatement(rows, id, clock)
    IN  /\ rows' = result.table
        /\ ret' = [op |-> "RejectOptimization", id |-> id,
                   err |-> IF result.rowsAffected = 0
                           THEN ErrNotFoundOrReviewed ELSE ErrNil,
                   result |-> <<>>]
        /\ UNCHANGED <<nextId, clock, pc, call, env, chunker, scorer, analyzer, store, embedCall, builder, reviews>>

\* time passes
Tick ==
    /\ clock < MaxClock
    /\ clock' = clock + 1
    /\ UNCHANGED <<rows, nextId, pc, call, env, ret, chunker, scorer, analyzer, store, embedCall, builder, reviews>>

(***************************************************************************)
(* OptimizeQuery (engine.go) and what it calls.                            *)
(***************************************************************************)

\* what Embedder.Embed may do for the one query text Search gives it: fail, return
\* no vector at all, or return the vector
EmbedOutcomes == {"error", "empty", "ok"}

\* A faulty variant of Search: a failed embedding is taken as "nothing found".
SearchIgnoringEmbedError(embed) ==
    IF embed = "empty"
    THEN [err |-> <<"no embedding generated for query">>, results |-> <<>>]
    ELSE [err |-> ErrNil, results |-> <<>>]

\* DocumentStore.Search as the engine sees it: the error it returns for the
\* embedder's outcome; the passages found are not kept by the model
Search(embed) ==
    IF embed = "error"
    THEN [err |-> <<"failed to generate query embedding", "embedder error">>,
          results |-> <<>>]
    ELSE IF embed = "empty"
    THEN [err |-> <<"no embedding generated for query">>, results |-> <<>>]
    ELSE [err |-> ErrNil, results |-> <<>>]

\* PromptBuilder.BuildOptimizationPrompt: Search runs under a context of its own
\* (context.Background() with a 10 s timeout), not under the caller's
BuildOptimizationPrompt(sql, pattern, embed) ==
    LET found == Search(embed)
    IN  IF found.err # ErrNil
        THEN [err |-> <<"failed to retrieve context">> \o found.err,
              prompt |-> <<>>]
        ELSE [err |-> ErrNil,
              prompt |-> <<[sql |-> sql, pattern |-> pattern,
                            context |-> found.results]>>]

\* json.Marshal of a QueryPattern: the fields under their json tags, in order
MarshalPattern(pattern) ==
    << <<"type", pattern.Type>>,
       <<"tables", pattern.Tables>>,
       <<"anti_patterns", pattern.AntiPatterns>>,
       <<"optimization_opportunities", pattern.OptimizationOps>>,
       <<"complexity", pattern.Complexity>>,
       <<"keywords", pattern.Keywords>> >>

\* the OptimizationResult OptimizeQuery builds (step 6), before it has an id
newResult(sql, pattern, parsed, now) ==
    [ID                  |-> 0,
     OriginalSQL         |-> sql,
     OptimizedSQL        |-> parsed.ProposedSQL,
     Pattern             |-> pattern,
     Rationale           |-> parsed.Rationale,
     ExpectedImprovement |-> parsed.ExpectedPlanChange,
     Caveats             |-> parsed.Caveats,
     ConfidenceScore     |-> calculateConfidenceScore(pattern, parsed),
     Status              |-> "pending",
     CreatedAt           |-> now,
     ReviewedAt          |-> NullTime]

\* A faulty variant of storeOptimizationResult: a row for the same slow query
\* and statement is replaced instead of a new one being added.
storeOptimizationResultDedup(table, autoIncrement, slowQueryID, result) ==
    LET same == {i \in 1..Len(table) :
                    /\ table[i].slow_query_id = slowQueryID
                    /\ table[i].original_sql = result.OriginalSQL}
        id   == IF same = {} THEN autoIncrement
                ELSE table[CHOOSE i \in same : TRUE].id
        row  == [id                   |-> id,
                 slow_query_id        |-> slowQueryID,
                 original_sql         |-> result.OriginalSQL,
                 optimized_sql        |-> result.OptimizedSQL,
                 pattern_analysis     |-> <<>>,
                 rationale            |-> result.Rationale,
                 expected_improvement |-> result.ExpectedImprovement,
                 caveats              |-> result.Caveats,
                 confidence_score     |-> result.ConfidenceScore,
                 status               |-> result.Status,
                 created_at           |-> result.CreatedAt,
                 reviewed_at          |-> NullTime]
    IN  [table |-> IF same = {} THEN Append(table, row)
                   ELSE [i \in 1..Len(table) |->
                           IF i \in same THEN row ELSE table[i]],
         result |-> [result EXCEPT !.ID = id]]

\* storeOptimizationResult: the INSERT (reviewed_at is not listed and stays NULL,
\* id is the AUTO_INCREMENT value) and result.ID = LastInsertId()
storeOptimizationResult(table, autoIncrement, slowQueryID, result) ==
    [table |-> Append(table,
                 [id                   |-> autoIncrement,
                  slow_query_id        |-> slowQueryID,
                  original_sql         |-> result.OriginalSQL,
                  optimized_sql        |-> result.OptimizedSQL,
                  pattern_analysis     |-> MarshalPattern(result.Pattern),
                  rationale            |-> result.Rationale,
                  expected_improvement |-> result.ExpectedImprovement,
                  caveats              |-> result.Caveats,
                  confidence_score     |-> result.ConfidenceScore,
                  status               |-> result.Status,
                  created_at           |-> result.CreatedAt,
                  reviewed_at          |-> NullTime]),
     result |-> [result EXCEPT !.ID = autoIncrement]]

\* oe.analyzer.AnalyzeQuery(sql) for each statement of SqlInputs, computed once
analyzed == [sql \in SqlInputs |-> AnalyzeQuery(sql)]

\* oe.parseLLMResponse(llmResponse) for each text of GeneratorTexts, computed once
parsedResponse == [text \in GeneratorTexts |-> parseLLMResponse(text)]

\* OptimizeQuery returns err (and no result)
OptimizeFails(err) ==
    /\ pc' = "idle"
    /\ call' = NoCall
    /\ ret' = [op |-> "OptimizeQuery", id |-> 0, err |-> err, result |-> <<>>]
    /\ UNCHANGED <<rows, nextId, clock, chunker, scorer, analyzer, store, embedCall, builder, reviews>>

\* the call and step 1: the pattern is analysed
OptimizeStart(slowQueryID, sql) ==
    /\ pc = "idle"
    /\ Len(rows) < MaxRows
    /\ \E pattern \in analyzed[sql] :
         call' = [active |-> TRUE, cancelled |-> FALSE,
                  slowQueryID |-> slowQueryID, sql |-> sql,
                  pattern |-> pattern, llmResponse |-> <<>>]
    /\ pc' = "prompt"
    /\ env' = NoEnv
    /\ UNCHANGED <<rows, nextId, clock, ret, chunker, scorer, analyzer, store, embedCall, builder, reviews>>

\* step 2: the prompt is built, with retrieval
BuildPromptStep ==
    /\ pc = "prompt"
    /\ \E embed \in EmbedOutcomes :
         LET built == BuildOptimizationPrompt(call.sql, call.pattern, embed)
         IN  /\ env' = [env EXCEPT !.embed = embed]
             /\ IF built.err # ErrNil
                THEN OptimizeFails(<<"failed to build optimization prompt">>
                                   \o built.err)
                ELSE /\ pc' = "generate"
                     /\ UNCHANGED <<rows, nextId, clock, call, ret, chunker, scorer, analyzer, store, embedCall, builder, reviews>>

\* A faulty variant of step 3: a failed Complete is tried once more.
GenerateStepRetrying ==
    /\ pc = "generate"
    /\ \E failed \in BOOLEAN, text \in GeneratorTexts :
         /\ env' = [env EXCEPT !.genCalls = @ + 1,
                               !.gen = IF failed THEN "error" ELSE "ok",
                               !.genText = IF failed THEN <<>> ELSE text]
         /\ IF failed /\ env.genCalls >= 1
            THEN OptimizeFails(<<"failed to generate optimization",
                                 "generator error">>)
            ELSE IF failed
            THEN UNCHANGED <<rows, nextId, clock, pc, call, ret, analyzer, store, embedCall, builder, reviews>>
            ELSE /\ call' = [call EXCEPT !.llmResponse = text]
                 /\ pc' = "parse"
                 /\ UNCHANGED <<rows, nextId, clock, ret, analyzer, store, embedCall, builder, reviews>>
    /\ UNCHANGED <<chunker, scorer, analyzer, store, embedCall, builder, reviews>>

\* step 3: Generator.Complete(ctx, prompt, opts) returns. A generator that
\* honours ctx (the HTTP ones) fails once ctx is cancelled; the mock ignores it.
GenerateStep ==
    /\ pc = "generate"
    /\ \E honoursCtx \in BOOLEAN, failed \in BOOLEAN, text \in GeneratorTexts :
         /\ (call.cancelled /\ honoursCtx) => failed
         /\ env' = [env EXCEPT !.genCalls = @ + 1,
                               !.gen = IF failed THEN "error" ELSE "ok",
                               !.genText = IF failed THEN <<>> ELSE text]
         /\ IF failed
            THEN OptimizeFails(<<"failed to generate optimization",
                                 "generator error">>)
            ELSE /\ call' = [call EXCEPT !.llmResponse = text]
                 /\ pc' = "parse"
                 /\ UNCHANGED <<rows, nextId, clock, ret, chunker, scorer, analyzer, store, embedCall, builder, reviews>>

\* steps 4 to 6: the response is parsed and scored and the result stored
ParseScoreStore ==
    /\ pc = "parse"
    /\ \E parsed \in {parsedResponse[call.llmResponse]} :
         IF parsed.err
         THEN /\ OptimizeFails(<<"failed to parse LLM response",
                   "failed to extract optimized SQL from LLM response">>)
              /\ UNCHANGED env
         ELSE \E stored \in {storeOptimizationResult(rows, nextId,
                                call.slowQueryID,
                                newResult(call.sql, call.pattern,
                                          parsed.parsed, clock))} :
                /\ rows' = stored.table
                /\ nextId' = nextId + 1
                /\ ret' = [op |-> "OptimizeQuery", id |-> stored.result.ID,
                           err |-> ErrNil, result |-> <<stored.result>>]
                /\ pc' = "idle"
                /\ call' = NoCall
                /\ UNCHANGED <<clock, env, chunker, scorer, analyzer, store, embedCall, builder, reviews>>

\* the caller cancels the ctx it passed to OptimizeQuery (or its deadline passes)
Cancel ==
    /\ pc # "idle"
    /\ ~call.cancelled
    /\ call' = [call EXCEPT !.cancelled = TRUE]
    /\ UNCHANGED <<rows, nextId, clock, pc, env, ret, chunker, scorer, analyzer, store, embedCall, builder, reviews>>

(***************************************************************************)
(* The engine: one OptimizeQuery call at a time, review calls at any time. *)
(***************************************************************************)
Init ==
    /\ rows = <<>>
    /\ nextId = 1
    /\ clock = 0
    /\ pc = "idle"
    /\ call = NoCall
    /\ env = NoEnv
    /\ ret = NoRet
    /\ chunker = NoChunker
    /\ scorer = NoScorer
    /\ analyzer = NoAnalyzer
    /\ store = NoStore
    /\ embedCall = NoEmbedCall
    /\ builder = NoBuilder
    /\ reviews = NoReviews

Next ==
    \/ \E slowQueryID \in SlowQueryIds, sql \in SqlInputs :
         OptimizeStart(slowQueryID, sql)
    \/ BuildPromptStep
    \/ GenerateStep
    \/ ParseScoreStore
    \/ Cancel
    \/ \E id \in ReviewIds : AcceptOptimization(id)
    \/ \E id \in ReviewIds : RejectOptimization(id)
    \/ Tick

Spec == Init /\ [][Next]_vars

(***************************************************************************)
(* chunkText (internal/rag), one step per test of the loop.                *)
(***************************************************************************)

\* the texts chunkText is called with: every text over ChunkAlphabet of at
\* most MaxTextLen bytes
ChunkTexts == UNION {[1..n -> ChunkAlphabet] : n \in 0..MaxTextLen}

\* the calls chunkText(text, chunkSize, overlap) with chunkSize > 0, overlap >= 0
ChunkCalls ==
    {[pc |-> "call", text |-> text, chunkSize |-> chunkSize,
      overlap |-> overlap, start |-> 0, chunks |-> <<>>] :
        text \in ChunkTexts, chunkSize \in 1..MaxChunkSize,
        overlap \in 0..MaxOverlap}

\* the test on entry: a text that fits one chunk is returned as it is
chunkTextEntry ==
    /\ chunker.pc = "call"
    /\ chunker' =
         IF Len(chunker.text) <= chunker.chunkSize
         THEN [chunker EXCEPT !.pc = "returned", !.chunks = <<chunker.text>>]
         ELSE [chunker EXCEPT !.pc = "loop", !.start = 0, !.chunks = <<>>]
    /\ UNCHANGED <<rows, nextId, clock, pc, call, env, ret, scorer, analyzer, store, embedCall, builder, reviews>>

\* A faulty variant of the pass: the window advances by chunkSize, not by
\* chunkSize - overlap.
chunkTextIterationNoOverlap ==
    /\ chunker.pc = "loop"
    /\ Len(chunker.chunks) < MaxChunks
    /\ LET text  == chunker.text
           start == chunker.start
           end   == IF start + chunker.chunkSize > Len(text) THEN Len(text)
                    ELSE start + chunker.chunkSize
       IN  chunker' =
             IF ~(start < Len(text))
             THEN [chunker EXCEPT !.pc = "returned"]
             ELSE IF end >= Len(text)
             THEN [chunker EXCEPT !.pc = "returned",
                     !.chunks = Append(@, SubSeq(text, start + 1, end))]
             ELSE [chunker EXCEPT
                     !.chunks = Append(@, SubSeq(text, start + 1, end)),
                     !.start = start + chunker.chunkSize]
    /\ UNCHANGED <<rows, nextId, clock, pc, call, env, ret, scorer, analyzer, store, embedCall, builder, reviews>>

\* one pass of  for start < len(text) { ... } : text[start:end] panics when
\* start is negative (Go checks 0 <= start <= end <= len(text) on a slice)
chunkTextIteration ==
    /\ chunker.pc = "loop"
    /\ Len(chunker.chunks) < MaxChunks
    /\ LET text  == chunker.text
           start == chunker.start
           end   == IF start + chunker.chunkSize > Len(text) THEN Len(text)
                    ELSE start + chunker.chunkSize
       IN  chunker' =
             IF ~(start < Len(text))
             THEN [chunker EXCEPT !.pc = "returned"]
             ELSE IF start < 0 \/ start > end
             THEN [chunker EXCEPT !.pc = "panicked"]
             ELSE IF end >= Len(text)
             THEN [chunker EXCEPT !.pc = "returned",
                     !.chunks = Append(@, SubSeq(text, start + 1, end))]
             ELSE [chunker EXCEPT
                     !.chunks = Append(@, SubSeq(text, start + 1, end)),
                     !.start = start + chunker.chunkSize - chunker.overlap]
    /\ UNCHANGED <<rows, nextId, clock, pc, call, env, ret, scorer, analyzer, store, embedCall, builder, reviews>>

ChunkInit ==
    /\ rows = <<>>
    /\ nextId = 1
    /\ clock = 0
    /\ pc = "idle"
    /\ call = NoCall
    /\ env = NoEnv
    /\ ret = NoRet
    /\ chunker \in ChunkCalls
    /\ scorer = NoScorer
    /\ analyzer = NoAnalyzer
    /\ store = NoStore
    /\ embedCall = NoEmbedCall
    /\ builder = NoBuilder
    /\ reviews = NoReviews

ChunkNext ==
    \/ chunkTextEntry
    \/ chunkTextIteration

ChunkSpec == ChunkInit /\ [][ChunkNext]_vars

(***************************************************************************)
(* Steps 5 and 6 of OptimizeQuery for an arbitrary pattern and parsed      *)
(* response: the score is calculated and the result stored.                *)
(***************************************************************************)

\* n tags of a QueryPattern list
Tags(n) == [i \in 1..n |-> "tag"]

\* a section text of n bytes
SectionText(n) == [i \in 1..n |-> "r"]

\* the patterns given to the scorer: every complexity AnalyzeQuery yields and one
\* it never yields, none to MaxTags anti-patterns and opportunities
ScorePatterns ==
    {[Type |-> "basic-select", Tables |-> <<>>,
      AntiPatterns |-> Tags(a), OptimizationOps |-> Tags(o),
      Complexity |-> c, Keywords |-> <<>>] :
        a \in 0..MaxTags, o \in 0..MaxTags,
        c \in {"simple", "medium", "complex", "unknown"}}

\* the parsed responses given to the scorer: sections that are empty, of
\* MaxSection - 1 bytes and of MaxSection bytes; SQL with and without an index
ScoreResponses ==
    {[ProposedSQL |-> s, Rationale |-> SectionText(r),
      ExpectedPlanChange |-> SectionText(e), Caveats |-> <<>>] :
        s \in {<<"S","E","L","E","C","T"," ","1">>,
               <<"C","R","E","A","T","E"," ","I","N","D","E","X"," ","i">>},
        r \in {0, MaxSection - 1, MaxSection},
        e \in {0, MaxSection - 1, MaxSection}}

\* OptimizeQuery from step 5 on, for the scorer's pattern and response
ScoreAndStore ==
    /\ scorer.pc = "call"
    /\ Len(rows) < MaxRows
    /\ \E slowQueryID \in SlowQueryIds, sql \in SqlInputs :
       \E stored \in {storeOptimizationResult(rows, nextId, slowQueryID,
                          newResult(sql, scorer.pattern, scorer.response,
                                    clock))} :
         /\ rows' = stored.table
         /\ nextId' = nextId + 1
         /\ ret' = [op |-> "OptimizeQuery", id |-> stored.result.ID,
                    err |-> ErrNil, result |-> <<stored.result>>]
    /\ scorer' = [scorer EXCEPT !.pc = "done"]
    /\ UNCHANGED <<clock, pc, call, env, chunker, analyzer, store, embedCall, builder, reviews>>

ScoreInit ==
    /\ rows = <<>>
    /\ nextId = 1
    /\ clock = 0
    /\ pc = "idle"
    /\ call = NoCall
    /\ env = NoEnv
    /\ ret = NoRet
    /\ chunker = NoChunker
    /\ scorer \in {[pc |-> "call", pattern |-> pattern, response |-> response] :
                     pattern \in ScorePatterns, response \in ScoreResponses}
    /\ analyzer = NoAnalyzer
    /\ store = NoStore
    /\ embedCall = NoEmbedCall
    /\ builder = NoBuilder
    /\ reviews = NoReviews

ScoreNext == ScoreAndStore

ScoreSpec == ScoreInit /\ [][ScoreNext]_vars

(***************************************************************************)
(* Analyzer specification: AnalyzeQuery called repeatedly on one statement *)
(* (internal/analyze/patterns.go).                                         *)
(***************************************************************************)

\* number of keywords of a pattern given to buildSearchQuery
MaxKeywords == 2

\* number of calls made on the same statement
MaxAnalyzeCalls == 2

\* the statements are  SELECT <list> FROM <tables><where><tail>  with
\*   list:   *  |  id,name  |  c.name,p.name
SelectLists ==
    { <<"*">>,
      <<"i","d",",","n","a","m","e">>,
      <<"c",".","n","a","m","e",",","p",".","n","a","m","e">> }
\*   tables: products  |  customers c, products p  |  orders o JOIN customers c ON o.cid = c.id
FromClauses ==
    { <<"p","r","o","d","u","c","t","s">>,
      <<"c","u","s","t","o","m","e","r","s"," ","c",","," ","p","r","o","d","u","c","t","s"," ","p">>,
      <<"o","r","d","e","r","s"," ","o"," ","J","O","I","N"," ","c","u","s","t","o","m","e","r","s"," ","c"," ","O","N"," ","o",".","c","i","d"," ","="," ","c",".","i","d">> }
\*   where:  (none)  |  WHERE name LIKE '%widget%'  |  WHERE c.city='London'
WhereClauses ==
    { <<>>,
      <<" ","W","H","E","R","E"," ","n","a","m","e"," ","L","I","K","E"," ","'","%","w","i","d","g","e","t","%","'">>,
      <<" ","W","H","E","R","E"," ","c",".","c","i","t","y","=","'","L","o","n","d","o","n","'">> }
\*   tail:   (none)  |  ORDER BY created_at  |  LIMIT 10
TailClauses ==
    { <<>>,
      <<" ","O","R","D","E","R"," ","B","Y"," ","c","r","e","a","t","e","d","_","a","t">>,
      <<" ","L","I","M","I","T"," ","1","0">> }

AnalyzeInputs ==
    {<<"S","E","L","E","C","T"," ">> \o list \o <<" ","F","R","O","M"," ">> \o tables \o where \o tail :
        list \in SelectLists, tables \in FromClauses,
        where \in WhereClauses, tail \in TailClauses}

\* one call qa.AnalyzeQuery(sql): the returned pattern is recorded
AnalyzeCall ==
    /\ analyzer.pc = "call"
    /\ Len(analyzer.results) < MaxAnalyzeCalls
    /\ \E pattern \in AnalyzeQuery(analyzer.sql) :
         analyzer' = [analyzer EXCEPT !.results = Append(@, pattern)]
    /\ UNCHANGED <<rows, nextId, clock, pc, call, env, ret, chunker, scorer, store, embedCall, builder, reviews>>

AnalyzeInit ==
    /\ rows = <<>>
    /\ nextId = 1
    /\ clock = 0
    /\ pc = "idle"
    /\ call = NoCall
    /\ env = NoEnv
    /\ ret = NoRet
    /\ chunker = NoChunker
    /\ scorer = NoScorer
    /\ analyzer \in {[pc |-> "call", sql |-> sql, results |-> <<>>] : sql \in AnalyzeInputs}
    /\ store = NoStore
    /\ embedCall = NoEmbedCall
    /\ builder = NoBuilder
    /\ reviews = NoReviews

AnalyzeNext == AnalyzeCall

AnalyzeSpec == AnalyzeInit /\ [][AnalyzeNext]_vars

(***************************************************************************)
(* Document store specification: addDocument and Search of the rag package *)
(* (src/unnamed/part_000) with the embedders of internal/llm/embed.        *)
(* A vector is kept as its number of components and its direction; the     *)
(* directions are multiples of 30 degrees in one plane, so that the cosine *)
(* distance of two vectors is a table look-up on the angle between them.   *)
(***************************************************************************)

\* chunkText(doc.Content, 400, 50)
DocChunkSize == 400
DocOverlap == 50
\* VECTOR(1536): the embedding column of app_embeddings and the casts of the
\* INSERT and of the search statement
VectorDim == 1536
\* Dim() of text-embedding-3-large
LargeDim == 3072
\* the threshold 0.5 of the search statement, in hundredths
DistanceThreshold == 50

\* largest topK passed to Search and largest direction of a vector
MaxTopK == 2
MaxDirection == 2

Directions == 0..MaxDirection
TopKs == 0..MaxTopK
Titles == {"t1", "t2"}
\* contents of one chunk (10 bytes) and of two chunks (401 bytes)
Contents == {[i \in 1..10 |-> "a"], [i \in 1..401 |-> "b"]}
Queries == {<<"a">>}

\* chunkText as a function, for chunkSize > overlap (the loop from start)
RECURSIVE chunkTextFrom(_, _, _, _)
chunkTextFrom(text, chunkSize, overlap, start) ==
    IF ~(start < Len(text)) THEN <<>>
    ELSE LET end   == IF start + chunkSize > Len(text) THEN Len(text)
                      ELSE start + chunkSize
             chunk == SubSeq(text, start + 1, end)
         IN  IF end >= Len(text) THEN <<chunk>>
             ELSE <<chunk>> \o chunkTextFrom(text, chunkSize, overlap,
                                             start + chunkSize - overlap)

chunkText(text, chunkSize, overlap) ==
    IF Len(text) <= chunkSize THEN <<text>>
    ELSE chunkTextFrom(text, chunkSize, overlap, 0)

\* the chunks addDocument makes of each content
chunked == [content \in Contents |-> chunkText(content, DocChunkSize, DocOverlap)]

\* the embedders NewEmbedder can build: the mock with 1536 components, and the
\* OpenAI embedder with a model name. served is the number of components of the
\* vectors the embeddings API returns for the model (for a model Dim() does not
\* know, here one of 3072, the program has no way to tell)
Embedders ==
    {[provider |-> "mock", model |-> "mock", dim |-> VectorDim, served |-> 0],
     [provider |-> "openai", model |-> "text-embedding-3-small", dim |-> 0,
      served |-> VectorDim],
     [provider |-> "openai", model |-> "text-embedding-3-large", dim |-> 0,
      served |-> LargeDim],
     [provider |-> "openai", model |-> "text-embedding-custom", dim |-> 0,
      served |-> LargeDim]}

\* MockEmbedder.Dim and OpenAIEmbedder.Dim
Dim(e) ==
    IF e.provider = "mock" THEN e.dim
    ELSE IF e.model = "text-embedding-3-large" THEN LargeDim
    ELSE VectorDim

\* generateDeterministicEmbedding: e.dim components in a direction that is a
\* function of the text (standing for the MD5-seeded generator)
generateDeterministicEmbedding(e, text) ==
    [len |-> e.dim,
     dir |-> IF text = <<>> THEN 0
             ELSE ((IF text[1] = "a" THEN 0 ELSE 1) + Len(text)) % (MaxDirection + 1)]

\* MockEmbedder.Embed: one vector per text, never an error
MockEmbed(e, texts) ==
    {[err |-> ErrNil,
      embeddings |-> [i \in 1..Len(texts) |-> generateDeterministicEmbedding(e, texts[i])]]}

\* OpenAIEmbedder.Embed: no texts is an error; the request can fail; a response
\* holds one entry per input, placed by its index, with the vectors the model
\* serves (their direction is the model's business)
OpenAIEmbed(e, texts) ==
    IF Len(texts) = 0 THEN {[err |-> <<"no texts provided">>, embeddings |-> <<>>]}
    ELSE {[err |-> <<"failed to make request">>, embeddings |-> <<>>]} \cup
         {[err |-> ErrNil,
           embeddings |-> [i \in 1..Len(texts) |-> [len |-> e.served, dir |-> dirs[i]]]] :
              dirs \in [1..Len(texts) -> Directions]}

\* ds.embedder.Embed
Embed(e, texts) ==
    IF e.provider = "mock" THEN MockEmbed(e, texts) ELSE OpenAIEmbed(e, texts)

\* VEC_COSINE_DISTANCE in hundredths: 1 - cos of the angle between the vectors
CosineDistance(a, b) ==
    LET diff == IF a.dir >= b.dir THEN a.dir - b.dir ELSE b.dir - a.dir
    IN  <<0, 13, 50, 100, 150, 187, 200>>[diff + 1]

NoLast ==
    [op |-> "none", err |-> ErrNil, title |-> "", content |-> <<>>,
     existed |-> FALSE, deleted |-> 0, chunks |-> 0, embedded |-> <<>>,
     query |-> <<>>, topK |-> 0, results |-> <<>>]

\* A faulty variant of the cast: a vector of any length is taken.
castAsVectorUnchecked(v) == TRUE

\* CAST(? AS VECTOR(1536)) succeeds for a vector of 1536 components
castAsVector(v) == v.len = VectorDim

\* A faulty variant of the DELETE: the chunks of the document stay.
deleteEmbeddingsSkipped(embeddings, docID) == embeddings

\* DELETE FROM app_embeddings WHERE doc_id = ?
deleteEmbeddings(embeddings, docID) ==
    LET Keep(r) == r.doc_id # docID IN SelectSeq(embeddings, Keep)

\* addDocument: look the title up; insert the document, or update it and delete
\* its chunks; chunk the content, embed the chunks, insert one row per chunk
\* while there are vectors. The INSERT casts to VECTOR(1536) and fails for a
\* vector of another length; the statements run one by one, without a
\* transaction, so what was written before an error stays.
addDocument(title, content) ==
    /\ store.pc = "ready"
    /\ LET existing == {i \in DOMAIN store.documents : store.documents[i].title = title}
           existed  == existing # {}
           docID    == IF existed THEN store.documents[CHOOSE i \in existing : TRUE].id
                       ELSE store.nextDocId
           documents1 ==
               IF existed
               THEN [i \in DOMAIN store.documents |->
                        IF store.documents[i].id = docID
                        THEN [store.documents[i] EXCEPT !.content = content]
                        ELSE store.documents[i]]
               ELSE Append(store.documents,
                           [id |-> docID, title |-> title, content |-> content])
           embeddings1 == IF existed THEN deleteEmbeddings(store.embeddings, docID)
                          ELSE store.embeddings
           chunks   == chunked[content]
           base     == [store EXCEPT !.documents = documents1,
                                     !.nextDocId = IF existed THEN @ ELSE @ + 1]
           call1    == [NoLast EXCEPT !.op = "addDocument", !.title = title,
                          !.content = content, !.existed = existed,
                          !.deleted = Len(store.embeddings) - Len(embeddings1),
                          !.chunks = Len(chunks)]
       IN  IF Len(chunks) = 0
           THEN store' = [base EXCEPT !.embeddings = embeddings1, !.last = call1]
           ELSE \E out \in Embed(store.embedder, chunks) :
                  IF out.err # ErrNil
                  THEN store' = [base EXCEPT !.embeddings = embeddings1,
                                   !.last = [call1 EXCEPT !.err =
                                       <<"failed to generate embeddings">> \o out.err]]
                  ELSE LET n    == IF Len(out.embeddings) < Len(chunks)
                                   THEN Len(out.embeddings) ELSE Len(chunks)
                           bad  == {i \in 1..n : ~castAsVector(out.embeddings[i])}
                           stop == IF bad = {} THEN n
                                   ELSE (CHOOSE i \in bad : \A j \in bad : i <= j) - 1
                           rows1 == [i \in 1..stop |->
                                       [doc_id |-> docID, chunk_id |-> i - 1,
                                        text |-> chunks[i],
                                        embedding |-> out.embeddings[i]]]
                       IN  store' = [base EXCEPT
                               !.embeddings = embeddings1 \o rows1,
                               !.last = [call1 EXCEPT
                                   !.embedded = out.embeddings,
                                   !.err = IF bad = {} THEN ErrNil
                                           ELSE <<"failed to store chunk",
                                                  "vector dimension mismatch">>]]
    /\ UNCHANGED <<rows, nextId, clock, pc, call, env, ret, chunker, scorer, analyzer, embedCall, builder, reviews>>

\* ORDER BY distance ASC over the rows S: every order the statement can return
\* (rows at the same distance come in any order)
RECURSIVE OrderByDistance(_, _, _)
OrderByDistance(embeddings, q, S) ==
    IF S = {} THEN {<<>>}
    ELSE LET firsts == {i \in S : \A j \in S :
                          CosineDistance(embeddings[i].embedding, q)
                              <= CosineDistance(embeddings[j].embedding, q)}
         IN  UNION {{<<i>> \o o : o \in OrderByDistance(embeddings, q, S \ {i})} :
                      i \in firsts}

\* A faulty variant of the search statement: no distance threshold.
searchStatementNoThreshold(documents, embeddings, q, topK) ==
    LET TitleOf(docID) ==
            documents[CHOOSE d \in DOMAIN documents : documents[d].id = docID].title
    IN  {[k \in 1..(IF topK < Len(o) THEN topK ELSE Len(o)) |->
             [Text     |-> embeddings[o[k]].text,
              Document |-> TitleOf(embeddings[o[k]].doc_id),
              Score    |-> 100 - CosineDistance(embeddings[o[k]].embedding, q)]] :
           o \in OrderByDistance(embeddings, q, DOMAIN embeddings)}

\* the search statement: the chunks joined to their documents, within the
\* threshold, by ascending distance, the first topK; score = 1 - distance
searchStatement(documents, embeddings, q, topK) ==
    LET within == {i \in DOMAIN embeddings :
                     /\ \E d \in DOMAIN documents : documents[d].id = embeddings[i].doc_id
                     /\ CosineDistance(embeddings[i].embedding, q) < DistanceThreshold}
        TitleOf(docID) ==
            documents[CHOOSE d \in DOMAIN documents : documents[d].id = docID].title
    IN  {[k \in 1..(IF topK < Len(o) THEN topK ELSE Len(o)) |->
             [Text     |-> embeddings[o[k]].text,
              Document |-> TitleOf(embeddings[o[k]].doc_id),
              Score    |-> 100 - CosineDistance(embeddings[o[k]].embedding, q)]] :
           o \in OrderByDistance(embeddings, q, within)}

\* Search: embed the query, run the search statement (whose cast fails for a
\* query vector that does not have 1536 components), turn the rows into results
SearchCall(query, topK) ==
    /\ store.pc = "ready"
    /\ LET call1 == [NoLast EXCEPT !.op = "Search", !.topK = topK]
       IN  \E out \in Embed(store.embedder, <<query>>) :
             IF out.err # ErrNil
             THEN store' = [store EXCEPT !.last = [call1 EXCEPT !.err =
                               <<"failed to generate query embedding">> \o out.err]]
             ELSE IF Len(out.embeddings) = 0
             THEN store' = [store EXCEPT !.last = [call1 EXCEPT !.err =
                               <<"no embedding generated for query">>]]
             ELSE IF ~castAsVector(out.embeddings[1])
             THEN store' = [store EXCEPT !.last = [call1 EXCEPT
                               !.query = <<out.embeddings[1]>>,
                               !.err = <<"failed to execute vector search",
                                         "vector dimension mismatch">>]]
             ELSE \E results \in searchStatement(store.documents, store.embeddings,
                                                 out.embeddings[1], topK) :
                    store' = [store EXCEPT !.last = [call1 EXCEPT
                                 !.query = <<out.embeddings[1]>>,
                                 !.results = results]]
    /\ UNCHANGED <<rows, nextId, clock, pc, call, env, ret, chunker, scorer, analyzer, embedCall, builder, reviews>>

StoreInit ==
    /\ rows = <<>>
    /\ nextId = 1
    /\ clock = 0
    /\ pc = "idle"
    /\ call = NoCall
    /\ env = NoEnv
    /\ ret = NoRet
    /\ chunker = NoChunker
    /\ scorer = NoScorer
    /\ analyzer = NoAnalyzer
    /\ store \in {[pc |-> "ready", embedder |-> e, documents |-> <<>>,
                   embeddings |-> <<>>, nextDocId |-> 1, last |-> NoLast] :
                    e \in Embedders}
    /\ embedCall = NoEmbedCall
    /\ builder = NoBuilder
    /\ reviews = NoReviews

StoreNext ==
    \/ \E title \in Titles, content \in Contents : addDocument(title, content)
    \/ \E query \in Queries, topK \in TopKs : SearchCall(query, topK)

StoreSpec == StoreInit /\ [][StoreNext]_vars

(***************************************************************************)
(* Embedder specification: one call of Embed on a list of texts.           *)
(***************************************************************************)

\* longest list of texts given to Embed
MaxTexts == 2

EmbedTexts == {<<"a">>, <<"b", "b">>}
TextLists == UNION {[1..n -> EmbedTexts] : n \in 0..MaxTexts}

\* embedder.Embed(ctx, texts)
EmbedCall ==
    /\ embedCall.pc = "call"
    /\ \E out \in Embed(embedCall.embedder, embedCall.texts) :
         embedCall' = [embedCall EXCEPT !.pc = "returned", !.err = out.err,
                                        !.embeddings = out.embeddings]
    /\ UNCHANGED <<rows, nextId, clock, pc, call, env, ret, chunker, scorer, analyzer, store, builder, reviews>>

EmbedInit ==
    /\ rows = <<>>
    /\ nextId = 1
    /\ clock = 0
    /\ pc = "idle"
    /\ call = NoCall
    /\ env = NoEnv
    /\ ret = NoRet
    /\ chunker = NoChunker
    /\ scorer = NoScorer
    /\ analyzer = NoAnalyzer
    /\ store = NoStore
    /\ embedCall \in {[pc |-> "call", embedder |-> e, texts |-> texts,
                       err |-> ErrNil, embeddings |-> <<>>] :
                        e \in Embedders, texts \in TextLists}
    /\ builder = NoBuilder
    /\ reviews = NoReviews

EmbedNext == EmbedCall

EmbedSpec == EmbedInit /\ [][EmbedNext]_vars

(***************************************************************************)
(* Read specification: GetOptimizationByID and ListPendingOptimizations    *)
(* (engine.go) over tables of stored results, next to the review calls.    *)
(***************************************************************************)

\* largest table and largest limit passed to ListPendingOptimizations
MaxStored == 3
MaxLimit == 2

StoredIds == 1..(MaxStored + 1)
Limits == 0..MaxLimit
\* confidence scores of stored results, in hundredths
StoredScores == {40, 100}
StoredTimes == 0..MaxClock

\* the pattern of the stored results
StoredPattern ==
    [Type |-> "basic-select", Tables |-> <<"t">>, AntiPatterns |-> <<>>,
     OptimizationOps |-> <<>>, Complexity |-> "simple", Keywords |-> <<>>]

\* the tables of n pending results stored by OptimizeQuery, with ids 1..n
StoredTables ==
    UNION {{[i \in 1..n |->
               storeOptimizationResult(<<>>, i, 1,
                   [newResult(<<"S","E","L","E","C","T"," ","1">>, StoredPattern,
                              [ProposedSQL |-> <<"S","E","L","E","C","T"," ","1">>,
                               Rationale |-> <<>>, ExpectedPlanChange |-> <<>>,
                               Caveats |-> <<>>], created[i])
                      EXCEPT !.ConfidenceScore = score[i]]).table[1]] :
              score \in [1..n -> StoredScores], created \in [1..n -> StoredTimes]} :
           n \in 0..MaxStored}

\* json.Unmarshal of the stored pattern: each field is read by its key
UnmarshalPattern(json) ==
    LET Field(key) == json[CHOOSE e \in DOMAIN json : json[e][1] = key][2]
    IN  [Type            |-> Field("type"),
         Tables          |-> Field("tables"),
         AntiPatterns    |-> Field("anti_patterns"),
         OptimizationOps |-> Field("optimization_opportunities"),
         Complexity      |-> Field("complexity"),
         Keywords        |-> Field("keywords")]

\* A faulty variant of the scan: rationale and expected_improvement are scanned
\* into each other's field.
scanResultSwapped(row) ==
    [ID                  |-> row.id,
     OriginalSQL         |-> row.original_sql,
     OptimizedSQL        |-> row.optimized_sql,
     Pattern             |-> UnmarshalPattern(row.pattern_analysis),
     Rationale           |-> row.expected_improvement,
     ExpectedImprovement |-> row.rationale,
     Caveats             |-> row.caveats,
     ConfidenceScore     |-> row.confidence_score,
     Status              |-> row.status,
     CreatedAt           |-> row.created_at,
     ReviewedAt          |-> row.reviewed_at]

\* rows.Scan and what follows it: the OptimizationResult of a row
scanResult(row) ==
    [ID                  |-> row.id,
     OriginalSQL         |-> row.original_sql,
     OptimizedSQL        |-> row.optimized_sql,
     Pattern             |-> UnmarshalPattern(row.pattern_analysis),
     Rationale           |-> row.rationale,
     ExpectedImprovement |-> row.expected_improvement,
     Caveats             |-> row.caveats,
     ConfidenceScore     |-> row.confidence_score,
     Status              |-> row.status,
     CreatedAt           |-> row.created_at,
     ReviewedAt          |-> row.reviewed_at]

\* row i comes before row j under ORDER BY confidence_score DESC, created_at DESC,
\* or the two are peers
NotAfter(table, i, j) ==
    \/ table[i].confidence_score > table[j].confidence_score
    \/ /\ table[i].confidence_score = table[j].confidence_score
       /\ table[i].created_at >= table[j].created_at

\* every order the ORDER BY can give the rows S (peers come in any order)
RECURSIVE OrderByConfidence(_, _)
OrderByConfidence(table, S) ==
    IF S = {} THEN {<<>>}
    ELSE LET firsts == {i \in S : \A j \in S : NotAfter(table, i, j)}
         IN  UNION {{<<i>> \o o : o \in OrderByConfidence(table, S \ {i})} :
                      i \in firsts}

\* A faulty variant of the statement: no test of the status.
listPendingStatementAnyStatus(table, limit) ==
    {[k \in 1..(IF limit < Len(o) THEN limit ELSE Len(o)) |-> table[o[k]]] :
        o \in OrderByConfidence(table, DOMAIN table)}

\* the statement of ListPendingOptimizations: the row lists it can return
listPendingStatement(table, limit) ==
    LET pending == {i \in DOMAIN table : table[i].status = "pending"}
    IN  {[k \in 1..(IF limit < Len(o) THEN limit ELSE Len(o)) |-> table[o[k]]] :
            o \in OrderByConfidence(table, pending)}

\* ListPendingOptimizations: the rows of the statement, scanned one by one; with
\* no row the loop does not run and the nil slice is returned with a nil error.
\* ret.id holds the limit
ListPendingOptimizations(limit) ==
    /\ \E found \in listPendingStatement(rows, limit) :
         ret' = [op |-> "ListPendingOptimizations", id |-> limit, err |-> ErrNil,
                 result |-> [k \in 1..Len(found) |-> scanResult(found[k])]]
    /\ UNCHANGED <<rows, nextId, clock, pc, call, env, chunker, scorer, analyzer, store, embedCall, builder, reviews>>

\* GetOptimizationByID: sql.ErrNoRows becomes "optimization result not found"
GetOptimizationByID(id) ==
    /\ LET hit == {i \in DOMAIN rows : rows[i].id = id}
       IN  ret' = IF hit = {}
                  THEN [op |-> "GetOptimizationByID", id |-> id,
                        err |-> <<"optimization result not found">>, result |-> <<>>]
                  ELSE [op |-> "GetOptimizationByID", id |-> id, err |-> ErrNil,
                        result |-> <<scanResult(rows[CHOOSE i \in hit : TRUE])>>]
    /\ UNCHANGED <<rows, nextId, clock, pc, call, env, chunker, scorer, analyzer, store, embedCall, builder, reviews>>

ReadInit ==
    /\ rows \in StoredTables
    /\ nextId = Len(rows) + 1
    /\ clock = MaxClock
    /\ pc = "idle"
    /\ call = NoCall
    /\ env = NoEnv
    /\ ret = NoRet
    /\ chunker = NoChunker
    /\ scorer = NoScorer
    /\ analyzer = NoAnalyzer
    /\ store = NoStore
    /\ embedCall = NoEmbedCall
    /\ builder = NoBuilder
    /\ reviews = NoReviews

ReadNext ==
    \/ \E limit \in Limits : ListPendingOptimizations(limit)
    \/ \E id \in StoredIds : GetOptimizationByID(id)
    \/ \E id \in StoredIds : AcceptOptimization(id)
    \/ \E id \in StoredIds : RejectOptimization(id)

ReadSpec == ReadInit /\ [][ReadNext]_vars

(***************************************************************************)
(* Store and read back: steps 5 and 6 of OptimizeQuery for an arbitrary    *)
(* pattern and parsed response, and GetOptimizationByID (engine.go).       *)
(***************************************************************************)

RoundTripSpec ==
    ScoreInit /\ [][\/ ScoreAndStore
                    \/ \E id \in ReviewIds : GetOptimizationByID(id)]_vars

(***************************************************************************)
(* Pattern specification: one call of AnalyzeQuery on statements that      *)
(* exercise every test of the detectors (internal/analyze/patterns.go).    *)
(***************************************************************************)

\* the statements are  SELECT <list> FROM <tables><where><tail>  with
\*   list:   *  |  a  |  sleep(1)
\*   tables: t  |  t JOIN u  |  t JOIN u JOIN v JOIN w
\*   where:  (none)  |  WHERE a = 1  |  WHERE a LIKE 'x'  |  WHERE a LIKE '%x'
\*           |  WHERE a IN (SELECT b FROM u)  |  where a in (select b from u)
\*   tail:   (none)  |  GROUP BY a  |  ORDER BY a  |  GROUP BY a HAVING b > 1
\*           |  UNION SELECT b FROM v  |  WINDOW w AS (PARTITION BY b)
\* the first family crosses lists, tables, the first four wheres and the first
\* three tails; the second takes the list a with every table, where and tail
PatternInputs ==
    LET lists  == <<<<"*">>,
                   <<"a">>,
                   <<"s","l","e","e","p","(","1",")">>>>
        tables == {<<"t">>,
                   <<"t"," ","J","O","I","N"," ","u">>,
                   <<"t"," ","J","O","I","N"," ","u"," ","J","O","I","N"," ","v"," ","J","O","I","N"," ","w">>}
        wheres == <<<<>>,
                   <<" ","W","H","E","R","E"," ","a"," ","="," ","1">>,
                   <<" ","W","H","E","R","E"," ","a"," ","L","I","K","E"," ","'","x","'">>,
                   <<" ","W","H","E","R","E"," ","a"," ","L","I","K","E"," ","'","%","x","'">>,
                   <<" ","W","H","E","R","E"," ","a"," ","I","N"," ","(","S","E","L","E","C","T"," ","b"," ","F","R","O","M"," ","u",")">>,
                   <<" ","w","h","e","r","e"," ","a"," ","i","n"," ","(","s","e","l","e","c","t"," ","b"," ","f","r","o","m"," ","u",")">>>>
        tails  == <<<<>>,
                   <<" ","G","R","O","U","P"," ","B","Y"," ","a">>,
                   <<" ","O","R","D","E","R"," ","B","Y"," ","a">>,
                   <<" ","G","R","O","U","P"," ","B","Y"," ","a"," ","H","A","V","I","N","G"," ","b"," ",">"," ","1">>,
                   <<" ","U","N","I","O","N"," ","S","E","L","E","C","T"," ","b"," ","F","R","O","M"," ","v">>,
                   <<" ","W","I","N","D","O","W"," ","w"," ","A","S"," ","(","P","A","R","T","I","T","I","O","N"," ","B","Y"," ","b",")">>>>
        Statement(list, tbl, where, tail) ==
            <<"S","E","L","E","C","T"," ">> \o list \o <<" ","F","R","O","M"," ">> \o tbl \o where \o tail
    IN  {Statement(lists[l], tbl, wheres[w], tails[x]) :
            l \in 1..3, tbl \in tables, w \in 1..4, x \in 1..3}
        \cup {Statement(lists[2], tbl, wheres[w], tails[x]) :
            tbl \in tables, w \in 1..6, x \in 1..6}

\* the one call qa.AnalyzeQuery(sql)
AnalyzeOnce ==
    /\ analyzer.pc = "call"
    /\ analyzer.results = <<>>
    /\ \E pattern \in AnalyzeQuery(analyzer.sql) :
         analyzer' = [analyzer EXCEPT !.results = <<pattern>>]
    /\ UNCHANGED <<rows, nextId, clock, pc, call, env, ret, chunker, scorer, store, embedCall, builder, reviews>>

PatternInit ==
    /\ rows = <<>>
    /\ nextId = 1
    /\ clock = 0
    /\ pc = "idle"
    /\ call = NoCall
    /\ env = NoEnv
    /\ ret = NoRet
    /\ chunker = NoChunker
    /\ scorer = NoScorer
    /\ store = NoStore
    /\ embedCall = NoEmbedCall
    /\ analyzer \in {[pc |-> "call", sql |-> sql, results |-> <<>>] : sql \in PatternInputs}
    /\ builder = NoBuilder
    /\ reviews = NoReviews

PatternSpec == PatternInit /\ [][AnalyzeOnce]_vars

(***************************************************************************)
(* Prompt builder specification: buildSearchQuery applied to a pattern     *)
(* (internal/analyze, PromptBuilder).                                      *)
(***************************************************************************)

\* buildSearchQuery.  A phrase is kept as the sequence of its words; queryParts
\* is the slice the code appends to, and strings.Join(queryParts, " ") puts the
\* words of all phrases one after the other, a space between two of them.
buildSearchQuery(pattern) ==
    LET typePart ==
            CASE pattern.Type \in {"complex-join", "simple-join"} ->
                    <<"JOIN", "optimization", "performance">>
              [] pattern.Type = "aggregation" ->
                    <<"GROUP", "BY", "aggregation", "optimization">>
              [] pattern.Type = "pattern-search" ->
                    <<"LIKE", "pattern", "search", "index", "optimization">>
              [] pattern.Type = "full-select" ->
                    <<"SELECT", "*", "column", "projection", "optimization">>
              [] OTHER -> <<"SQL", "query", "optimization", "performance">>
        \* the parts the switch over an anti-pattern appends: one or none
        antiPatternParts(antiPattern) ==
            CASE antiPattern = "leading-wildcard-like" -> << <<"wildcard", "LIKE", "index">> >>
              [] antiPattern = "cartesian-join" -> << <<"Cartesian", "product", "JOIN">> >>
              [] antiPattern = "missing-limit" -> << <<"LIMIT", "result", "set">> >>
              [] antiPattern = "subquery-instead-of-join" -> << <<"subquery", "JOIN", "conversion">> >>
              [] OTHER -> <<>>
        RECURSIVE antiParts(_)
        antiParts(antiPatterns) ==
            IF antiPatterns = <<>> THEN <<>>
            ELSE antiPatternParts(Head(antiPatterns)) \o antiParts(Tail(antiPatterns))
        keywordParts == [k \in DOMAIN pattern.Keywords |-> <<pattern.Keywords[k], "optimization">>]
        queryParts == <<typePart>> \o antiParts(pattern.AntiPatterns) \o keywordParts
        RECURSIVE Join(_)
        Join(parts) == IF parts = <<>> THEN <<>> ELSE Head(parts) \o Join(Tail(parts))
    IN  [queryParts |-> queryParts, query |-> Join(queryParts)]

\* the patterns given to buildSearchQuery: every type, every selection of the
\* seven anti-patterns in the order detectAntiPatterns appends them, and up to
\* MaxKeywords keywords
BuilderPatterns ==
    {[Type |-> type,
      Tables |-> <<>>,
      AntiPatterns |-> TagsOf(<< <<present[1], "select-star">>,
                                 <<present[2], "leading-wildcard-like">>,
                                 <<present[3], "missing-limit">>,
                                 <<present[4], "cartesian-join">>,
                                 <<present[5], "function-in-where">>,
                                 <<present[6], "subquery-instead-of-join">>,
                                 <<present[7], "order-without-limit">> >>),
      OptimizationOps |-> <<>>,
      Complexity |-> "simple",
      Keywords |-> keywords] :
        type \in {"sleep-test", "complex-join", "simple-join", "aggregation",
                  "pattern-search", "full-select", "filtered-select", "basic-select"},
        present \in [1..7 -> BOOLEAN],
        keywords \in UNION {[1..n -> {"joins", "filtering"}] : n \in 0..MaxKeywords}}

\* the call pb.buildSearchQuery(pattern)
BuildSearchQuery ==
    /\ builder.pc = "call"
    /\ builder' = [builder EXCEPT !.pc = "done",
                                  !.queryParts = buildSearchQuery(builder.pattern).queryParts,
                                  !.query = buildSearchQuery(builder.pattern).query]
    /\ UNCHANGED <<rows, nextId, clock, pc, call, env, ret, chunker, scorer, analyzer, store, embedCall, reviews>>

BuilderInit ==
    /\ rows = <<>>
    /\ nextId = 1
    /\ clock = 0
    /\ pc = "idle"
    /\ call = NoCall
    /\ env = NoEnv
    /\ ret = NoRet
    /\ chunker = NoChunker
    /\ scorer = NoScorer
    /\ analyzer = NoAnalyzer
    /\ store = NoStore
    /\ embedCall = NoEmbedCall
    /\ builder \in {[pc |-> "call", pattern |-> pattern, queryParts |-> <<>>, query |-> <<>>] :
                      pattern \in BuilderPatterns}
    /\ reviews = NoReviews

BuilderSpec == BuilderInit /\ [][BuildSearchQuery]_vars

(***************************************************************************)
(* Concurrent reviews: AcceptOptimization and RejectOptimization called by *)
(* several clients at once (engine.go).  A call is followed in three       *)
(* steps: it is entered, the store executes its UPDATE (one atomic         *)
(* statement), it tests RowsAffected and returns.                          *)
(***************************************************************************)

\* number of concurrent review calls (they are made with the ids of ReviewIds)
MaxReviewers == 3

\* a client enters AcceptOptimization or RejectOptimization
ReviewStart(c, op, id) ==
    /\ reviews[c].pc = "idle"
    /\ reviews' = [reviews EXCEPT ![c] = [@ EXCEPT !.pc = "exec", !.op = op, !.id = id]]
    /\ UNCHANGED <<rows, nextId, clock, pc, call, env, ret, chunker, scorer, analyzer, store, embedCall, builder>>

\* oe.db.Exec(query, id): the store executes the statement of the call
ReviewExec(c) ==
    /\ reviews[c].pc = "exec"
    /\ LET result == IF reviews[c].op = "AcceptOptimization"
                     THEN acceptStatement(rows, reviews[c].id, clock)
                     ELSE rejectStatement(rows, reviews[c].id, clock)
       IN  /\ rows' = result.table
           /\ reviews' = [reviews EXCEPT ![c] = [@ EXCEPT !.pc = "check",
                                                          !.rowsAffected = result.rowsAffected,
                                                          !.at = clock]]
    /\ UNCHANGED <<nextId, clock, pc, call, env, ret, chunker, scorer, analyzer, store, embedCall, builder>>

\* the test of RowsAffected and the return
ReviewReturn(c) ==
    /\ reviews[c].pc = "check"
    /\ LET err == IF reviews[c].rowsAffected = 0 THEN ErrNotFoundOrReviewed ELSE ErrNil
       IN  /\ reviews' = [reviews EXCEPT ![c] = [@ EXCEPT !.pc = "done", !.err = err]]
           /\ ret' = [op |-> reviews[c].op, id |-> reviews[c].id, err |-> err,
                      result |-> <<>>]
    /\ UNCHANGED <<rows, nextId, clock, pc, call, env, chunker, scorer, analyzer, store, embedCall, builder>>

\* MaxRows pending results stored at time 0, no call entered yet
RaceInit ==
    /\ rows \in {table \in StoredTables :
                    /\ Len(table) = MaxRows
                    /\ \A i \in 1..Len(table) :
                          table[i].confidence_score = 100 /\ table[i].created_at = 0}
    /\ nextId = Len(rows) + 1
    /\ clock = 0
    /\ pc = "idle"
    /\ call = NoCall
    /\ env = NoEnv
    /\ ret = NoRet
    /\ chunker = NoChunker
    /\ scorer = NoScorer
    /\ analyzer = NoAnalyzer
    /\ store = NoStore
    /\ embedCall = NoEmbedCall
    /\ builder = NoBuilder
    /\ reviews = [c \in 1..MaxReviewers |->
                    [pc |-> "idle", op |-> "none", id |-> 0, rowsAffected |-> 0,
                     at |-> 0, err |-> ErrNil]]

RaceSpec ==
    RaceInit /\ [][\/ \E c \in 1..MaxReviewers, op \in {"AcceptOptimization", "RejectOptimization"},
                         id \in ReviewIds : ReviewStart(c, op, id)
                   \/ \E c \in 1..MaxReviewers : ReviewExec(c)
                   \/ \E c \in 1..MaxReviewers : ReviewReturn(c)
                   \/ Tick]_vars

(***************************************************************************)
(* The engine with the MockGenerator as its Generator                      *)
(* (internal/llm/generate/mock.go, PromptBuilder.buildPromptTemplate).     *)
(***************************************************************************)

\* the texts generateJoinOptimization, generateSelectOptimization,
\* generateAggregationOptimization, generateSleepOptimization and
\* generateGenericOptimization return
mockTemplates ==
    [join |->
        <<"P","R","O","P","O","S","E","D","_","S","Q","L",":","\n","S","E","L",
          "E","C","T"," ","c",".","e","m","a","i","l",","," ","o",".","t","o","t",
          "a","l",","," ","p",".","n","a","m","e"," ","\n","F","R","O","M"," ",
          "c","u","s","t","o","m","e","r","s"," ","c"," ","\n","I","N","N","E",
          "R"," ","J","O","I","N"," ","o","r","d","e","r","s"," ","o"," ","O","N",
          " ","c",".","i","d"," ","="," ","o",".","c","u","s","t","o","m","e","r",
          "_","i","d"," ","\n","I","N","N","E","R"," ","J","O","I","N"," ","o",
          "r","d","e","r","_","i","t","e","m","s"," ","o","i"," ","O","N"," ","o",
          ".","i","d"," ","="," ","o","i",".","o","r","d","e","r","_","i","d",
          "\n","I","N","N","E","R"," ","J","O","I","N"," ","p","r","o","d","u",
          "c","t","s"," ","p"," ","O","N"," ","o","i",".","p","r","o","d","u","c",
          "t","_","i","d"," ","="," ","p",".","i","d","\n","W","H","E","R","E",
          " ","c",".","c","i","t","y"," ","="," ","'","N","e","w"," ","Y","o","r",
          "k","'","\n","L","I","M","I","T"," ","1","0","0",";","\n","\n","R","A",
          "T","I","O","N","A","L","E",":","\n","xE2","x80","xA2"," ","A","d","d",
          "e","d"," ","L","I","M","I","T"," ","t","o"," ","r","e","d","u","c","e",
          " ","r","e","s","u","l","t"," ","s","e","t"," ","s","i","z","e","\n",
          "xE2","x80","xA2"," ","U","s","e","d"," ","I","N","N","E","R"," ","J",
          "O","I","N"," ","i","n","s","t","e","a","d"," ","o","f"," ","i","m","p",
          "l","i","c","i","t"," ","c","o","m","m","a"," ","j","o","i","n","s"," ",
          "f","o","r"," ","b","e","t","t","e","r"," ","r","e","a","d","a","b","i",
          "l","i","t","y","\n","xE2","x80","xA2"," ","S","p","e","c","i","f","i",
          "c"," ","e","q","u","a","l","i","t","y"," ","c","o","n","d","i","t","i",
          "o","n"," ","o","n"," ","i","n","d","e","x","e","d"," ","c","o","l","u",
          "m","n"," ","(","c","i","t","y",")","\n","\n","E","X","P","E","C","T",
          "E","D","_","P","L","A","N","_","C","H","A","N","G","E",":","\n","xE2",
          "x80","xA2"," ","I","n","d","e","x"," ","u","s","a","g","e"," ","o","n",
          " ","c","u","s","t","o","m","e","r","s",".","c","i","t","y"," ","f","o",
          "r"," ","f","a","s","t","e","r"," ","f","i","l","t","e","r","i","n","g",
          "\n","xE2","x80","xA2"," ","P","r","o","p","e","r"," ","j","o","i","n",
          " ","e","x","e","c","u","t","i","o","n"," ","p","l","a","n"," ","w","i",
          "t","h"," ","s","m","a","l","l","e","r"," ","i","n","t","e","r","m","e",
          "d","i","a","t","e"," ","r","e","s","u","l","t","s","\n","xE2","x80",
          "xA2"," ","R","e","d","u","c","e","d"," ","m","e","m","o","r","y"," ",
          "u","s","a","g","e"," ","w","i","t","h"," ","L","I","M","I","T"," ","c",
          "l","a","u","s","e","\n","\n","C","A","V","E","A","T","S",":","\n",
          "xE2","x80","xA2"," ","R","e","s","u","l","t"," ","s","e","t"," ","i",
          "s"," ","n","o","w"," ","l","i","m","i","t","e","d"," ","t","o"," ","1",
          "0","0"," ","r","o","w","s"," ","-"," ","v","e","r","i","f","y"," ","t",
          "h","i","s"," ","m","e","e","t","s"," ","b","u","s","i","n","e","s","s",
          " ","r","e","q","u","i","r","e","m","e","n","t","s","\n","xE2","x80",
          "xA2"," ","I","N","N","E","R"," ","J","O","I","N"," ","s","e","m","a",
          "n","t","i","c","s"," ","m","a","y"," ","e","x","c","l","u","d","e"," ",
          "c","u","s","t","o","m","e","r","s"," ","w","i","t","h","o","u","t"," ",
          "o","r","d","e","r","s">>,
     select |->
        <<"P","R","O","P","O","S","E","D","_","S","Q","L",":","\n","S","E","L",
          "E","C","T"," ","c",".","i","d",","," ","c",".","e","m","a","i","l",",",
          " ","c",".","f","i","r","s","t","_","n","a","m","e",","," ","c",".","l",
          "a","s","t","_","n","a","m","e","\n","F","R","O","M"," ","c","u","s",
          "t","o","m","e","r","s"," ","c"," ","\n","W","H","E","R","E"," ","c",
          ".","e","m","a","i","l"," ","L","I","K","E"," ","'","j","o","h","n","%",
          "@","%","'","\n","A","N","D"," ","c",".","c","r","e","a","t","e","d",
          "_","a","t"," ",">"," ","'","2","0","2","4","-","0","1","-","0","1","'",
          "\n","L","I","M","I","T"," ","5","0",";","\n","\n","R","A","T","I","O",
          "N","A","L","E",":","\n","xE2","x80","xA2"," ","R","e","p","l","a","c",
          "e","d"," ","S","E","L","E","C","T"," ","*"," ","w","i","t","h"," ","s",
          "p","e","c","i","f","i","c"," ","c","o","l","u","m","n","s"," ","t","o",
          " ","r","e","d","u","c","e"," ","d","a","t","a"," ","t","r","a","n","s",
          "f","e","r","\n","xE2","x80","xA2"," ","M","o","r","e"," ","s","p","e",
          "c","i","f","i","c"," ","L","I","K","E"," ","p","a","t","t","e","r","n",
          " ","t","o"," ","u","s","e"," ","i","n","d","e","x"," ","p","r","e","f",
          "i","x"," ","w","h","e","n"," ","a","v","a","i","l","a","b","l","e",
          "\n","xE2","x80","xA2"," ","A","d","d","e","d"," ","d","a","t","e"," ",
          "f","i","l","t","e","r"," ","t","o"," ","r","e","d","u","c","e"," ","s",
          "c","a","n"," ","r","a","n","g","e","\n","xE2","x80","xA2"," ","A","d",
          "d","e","d"," ","L","I","M","I","T"," ","t","o"," ","c","o","n","t","r",
          "o","l"," ","r","e","s","u","l","t"," ","s","i","z","e","\n","\n","E",
          "X","P","E","C","T","E","D","_","P","L","A","N","_","C","H","A","N","G",
          "E",":","\n","xE2","x80","xA2"," ","R","e","d","u","c","e","d"," ","I",
          "/","O"," ","w","i","t","h"," ","c","o","l","u","m","n"," ","p","r","o",
          "j","e","c","t","i","o","n","\n","xE2","x80","xA2"," ","B","e","t","t",
          "e","r"," ","i","n","d","e","x"," ","u","t","i","l","i","z","a","t","i",
          "o","n"," ","w","i","t","h"," ","s","p","e","c","i","f","i","c"," ","p",
          "a","t","t","e","r","n","s","\n","xE2","x80","xA2"," ","F","a","s","t",
          "e","r"," ","q","u","e","r","y"," ","e","x","e","c","u","t","i","o","n",
          " ","w","i","t","h"," ","s","m","a","l","l","e","r"," ","r","e","s","u",
          "l","t"," ","s","e","t","s","\n","\n","C","A","V","E","A","T","S",":",
          "\n","xE2","x80","xA2"," ","S","p","e","c","i","f","i","c"," ","c","o",
          "l","u","m","n"," ","s","e","l","e","c","t","i","o","n"," ","r","e","q",
          "u","i","r","e","s"," ","m","a","i","n","t","e","n","a","n","c","e"," ",
          "i","f"," ","s","c","h","e","m","a"," ","c","h","a","n","g","e","s",
          "\n","xE2","x80","xA2"," ","L","I","K","E"," ","p","a","t","t","e","r",
          "n","s"," ","w","i","t","h"," ","l","e","a","d","i","n","g"," ","w","i",
          "l","d","c","a","r","d","s"," ","s","t","i","l","l"," ","r","e","q","u",
          "i","r","e"," ","f","u","l","l"," ","s","c","a","n">>,
     aggregation |->
        <<"P","R","O","P","O","S","E","D","_","S","Q","L",":","\n","S","E","L",
          "E","C","T"," ","c",".","c","i","t","y",","," ","c",".","c","o","u","n",
          "t","r","y",","," ","\n"," "," "," "," "," "," "," ","C","O","U","N",
          "T","(","*",")"," ","a","s"," ","c","u","s","t","o","m","e","r","_","c",
          "o","u","n","t",",","\n"," "," "," "," "," "," "," ","R","O","U","N",
          "D","(","A","V","G","(","o",".","t","o","t","a","l",")",","," ","2",")",
          " ","a","s"," ","a","v","g","_","o","r","d","e","r","_","v","a","l","u",
          "e","\n","F","R","O","M"," ","c","u","s","t","o","m","e","r","s"," ",
          "c","\n","I","N","N","E","R"," ","J","O","I","N"," ","o","r","d","e",
          "r","s"," ","o"," ","O","N"," ","c",".","i","d"," ","="," ","o",".","c",
          "u","s","t","o","m","e","r","_","i","d","\n","W","H","E","R","E"," ",
          "o",".","s","t","a","t","u","s"," ","I","N"," ","(","'","p","a","i","d",
          "'",","," ","'","s","h","i","p","p","e","d","'",","," ","'","d","e","l",
          "i","v","e","r","e","d","'",")","\n","G","R","O","U","P"," ","B","Y",
          " ","c",".","c","i","t","y",","," ","c",".","c","o","u","n","t","r","y",
          "\n","H","A","V","I","N","G"," ","C","O","U","N","T","(","*",")"," ",
          ">","="," ","5","\n","O","R","D","E","R"," ","B","Y"," ","c","u","s",
          "t","o","m","e","r","_","c","o","u","n","t"," ","D","E","S","C",","," ",
          "a","v","g","_","o","r","d","e","r","_","v","a","l","u","e"," ","D","E",
          "S","C","\n","L","I","M","I","T"," ","2","0",";","\n","\n","R","A","T",
          "I","O","N","A","L","E",":","\n","xE2","x80","xA2"," ","A","d","d","e",
          "d"," ","W","H","E","R","E"," ","f","i","l","t","e","r"," ","t","o"," ",
          "r","e","d","u","c","e"," ","d","a","t","a"," ","p","r","o","c","e","s",
          "s","e","d"," ","b","e","f","o","r","e"," ","a","g","g","r","e","g","a",
          "t","i","o","n","\n","xE2","x80","xA2"," ","U","s","e","d"," ","H","A",
          "V","I","N","G"," ","t","o"," ","f","i","l","t","e","r"," ","g","r","o",
          "u","p","s"," ","e","f","f","i","c","i","e","n","t","l","y","\n","xE2",
          "x80","xA2"," ","A","d","d","e","d"," ","L","I","M","I","T"," ","t","o",
          " ","c","o","n","t","r","o","l"," ","r","e","s","u","l","t"," ","s","i",
          "z","e","\n","xE2","x80","xA2"," ","O","p","t","i","m","i","z","e","d",
          " ","O","R","D","E","R"," ","B","Y"," ","t","o"," ","u","s","e"," ","a",
          "g","g","r","e","g","a","t","e","d"," ","c","o","l","u","m","n","s",
          "\n","\n","E","X","P","E","C","T","E","D","_","P","L","A","N","_","C",
          "H","A","N","G","E",":","\n","xE2","x80","xA2"," ","P","r","e","-","a",
          "g","g","r","e","g","a","t","i","o","n"," ","f","i","l","t","e","r","i",
          "n","g"," ","r","e","d","u","c","e","s"," ","p","r","o","c","e","s","s",
          "i","n","g"," ","o","v","e","r","h","e","a","d","\n","xE2","x80","xA2",
          " ","M","o","r","e"," ","e","f","f","i","c","i","e","n","t"," ","G","R",
          "O","U","P"," ","B","Y"," ","e","x","e","c","u","t","i","o","n"," ","w",
          "i","t","h"," ","f","i","l","t","e","r","e","d"," ","d","a","t","a",
          "\n","xE2","x80","xA2"," ","B","e","t","t","e","r"," ","m","e","m","o",
          "r","y"," ","u","s","a","g","e"," ","w","i","t","h"," ","H","A","V","I",
          "N","G"," ","c","l","a","u","s","e","\n","\n","C","A","V","E","A","T",
          "S",":","\n","xE2","x80","xA2"," ","H","A","V","I","N","G"," ","c","l",
          "a","u","s","e"," ","c","h","a","n","g","e","s"," ","r","e","s","u","l",
          "t"," ","s","e","m","a","n","t","i","c","s"," ","b","y"," ","f","i","l",
          "t","e","r","i","n","g"," ","s","m","a","l","l"," ","g","r","o","u","p",
          "s","\n","xE2","x80","xA2"," ","O","R","D","E","R"," ","B","Y"," ","o",
          "n"," ","a","g","g","r","e","g","a","t","e","d"," ","c","o","l","u","m",
          "n","s"," ","m","a","y"," ","r","e","q","u","i","r","e"," ","a","d","d",
          "i","t","i","o","n","a","l"," ","s","o","r","t","i","n","g">>,
     sleep |->
        <<"P","R","O","P","O","S","E","D","_","S","Q","L",":","\n","S","E","L",
          "E","C","T"," ","c",".","i","d",","," ","c",".","e","m","a","i","l"," ",
          "\n","F","R","O","M"," ","c","u","s","t","o","m","e","r","s"," ","c",
          "\n","W","H","E","R","E"," ","c",".","i","d"," ","="," ","1","\n","L",
          "I","M","I","T"," ","1",";","\n","\n","R","A","T","I","O","N","A","L",
          "E",":","\n","xE2","x80","xA2"," ","R","e","m","o","v","e","d"," ","S",
          "L","E","E","P","(",")"," ","f","u","n","c","t","i","o","n"," ","w","h",
          "i","c","h"," ","s","e","r","v","e","s"," ","n","o"," ","b","u","s","i",
          "n","e","s","s"," ","p","u","r","p","o","s","e","\n","xE2","x80","xA2",
          " ","A","d","d","e","d"," ","s","p","e","c","i","f","i","c"," ","W","H",
          "E","R","E"," ","c","o","n","d","i","t","i","o","n"," ","o","n"," ","p",
          "r","i","m","a","r","y"," ","k","e","y"," ","f","o","r"," ","i","n","s",
          "t","a","n","t"," ","l","o","o","k","u","p","\n","xE2","x80","xA2"," ",
          "M","i","n","i","m","a","l"," ","c","o","l","u","m","n"," ","s","e","l",
          "e","c","t","i","o","n"," ","f","o","r"," ","f","a","s","t","e","s","t",
          " ","e","x","e","c","u","t","i","o","n","\n","xE2","x80","xA2"," ","L",
          "I","M","I","T"," ","1"," ","e","n","s","u","r","e","s"," ","s","i","n",
          "g","l","e"," ","r","o","w"," ","r","e","s","u","l","t","\n","\n","E",
          "X","P","E","C","T","E","D","_","P","L","A","N","_","C","H","A","N","G",
          "E",":","\n","xE2","x80","xA2"," ","P","r","i","m","a","r","y"," ","k",
          "e","y"," ","l","o","o","k","u","p"," ","i","n","s","t","e","a","d"," ",
          "o","f"," ","f","u","n","c","t","i","o","n"," ","e","x","e","c","u","t",
          "i","o","n","\n","xE2","x80","xA2"," ","E","l","i","m","i","n","a","t",
          "e","s"," ","a","r","t","i","f","i","c","i","a","l"," ","d","e","l","a",
          "y"," ","f","r","o","m"," ","S","L","E","E","P","(",")","\n","xE2",
          "x80","xA2"," ","I","n","d","e","x","-","b","a","s","e","d"," ","p","o",
          "i","n","t"," ","q","u","e","r","y"," ","w","i","t","h"," ","m","i","n",
          "i","m","a","l"," ","c","o","s","t","\n","\n","C","A","V","E","A","T",
          "S",":","\n","xE2","x80","xA2"," ","R","e","m","o","v","e","s"," ","a",
          "r","t","i","f","i","c","i","a","l"," ","d","e","l","a","y"," ","-"," ",
          "v","e","r","i","f","y"," ","t","h","i","s"," ","w","a","s"," ","o","n",
          "l","y"," ","f","o","r"," ","t","e","s","t","i","n","g","\n","xE2",
          "x80","xA2"," ","S","p","e","c","i","f","i","c"," ","I","D"," ","f","i",
          "l","t","e","r"," ","m","a","y"," ","n","e","e","d"," ","a","d","j","u",
          "s","t","m","e","n","t"," ","b","a","s","e","d"," ","o","n"," ","r","e",
          "q","u","i","r","e","m","e","n","t","s">>,
     generic |->
        <<"P","R","O","P","O","S","E","D","_","S","Q","L",":","\n","-","-"," ",
          "A","n","a","l","y","s","i","s"," ","s","h","o","w","s"," ","t","h","i",
          "s"," ","q","u","e","r","y"," ","c","a","n"," ","b","e"," ","o","p","t",
          "i","m","i","z","e","d"," ","w","i","t","h"," ","p","r","o","p","e","r",
          " ","i","n","d","e","x","i","n","g","\n","\n","R","A","T","I","O","N",
          "A","L","E",":","\n","xE2","x80","xA2"," ","C","o","n","s","i","d","e",
          "r"," ","a","d","d","i","n","g"," ","i","n","d","e","x","e","s"," ","o",
          "n"," ","f","r","e","q","u","e","n","t","l","y"," ","q","u","e","r","i",
          "e","d"," ","c","o","l","u","m","n","s","\n","xE2","x80","xA2"," ","U",
          "s","e"," ","E","X","P","L","A","I","N"," ","A","N","A","L","Y","Z","E",
          " ","t","o"," ","i","d","e","n","t","i","f","y"," ","b","o","t","t","l",
          "e","n","e","c","k","s","\n","xE2","x80","xA2"," ","F","i","l","t","e",
          "r"," ","e","a","r","l","y"," ","w","i","t","h"," ","W","H","E","R","E",
          " ","c","o","n","d","i","t","i","o","n","s"," ","o","n"," ","i","n","d",
          "e","x","e","d"," ","c","o","l","u","m","n","s","\n","xE2","x80","xA2",
          " ","C","o","n","s","i","d","e","r"," ","q","u","e","r","y"," ","r","e",
          "w","r","i","t","i","n","g"," ","f","o","r"," ","b","e","t","t","e","r",
          " ","p","e","r","f","o","r","m","a","n","c","e","\n","\n","E","X","P",
          "E","C","T","E","D","_","P","L","A","N","_","C","H","A","N","G","E",":",
          "\n","xE2","x80","xA2"," ","I","m","p","r","o","v","e","d"," ","e","x",
          "e","c","u","t","i","o","n"," ","p","l","a","n"," ","w","i","t","h"," ",
          "p","r","o","p","e","r"," ","i","n","d","e","x"," ","u","s","a","g","e",
          "\n","xE2","x80","xA2"," ","R","e","d","u","c","e","d"," ","t","a","b",
          "l","e"," ","s","c","a","n"," ","o","p","e","r","a","t","i","o","n","s",
          "\n","xE2","x80","xA2"," ","B","e","t","t","e","r"," ","j","o","i","n",
          " ","a","l","g","o","r","i","t","h","m","s"," ","s","e","l","e","c","t",
          "i","o","n","\n","\n","C","A","V","E","A","T","S",":","\n","xE2","x80",
          "xA2"," ","S","p","e","c","i","f","i","c"," ","o","p","t","i","m","i",
          "z","a","t","i","o","n","s"," ","d","e","p","e","n","d"," ","o","n"," ",
          "a","c","t","u","a","l"," ","q","u","e","r","y"," ","p","a","t","t","e",
          "r","n","s","\n","xE2","x80","xA2"," ","I","n","d","e","x"," ","r","e",
          "c","o","m","m","e","n","d","a","t","i","o","n","s"," ","n","e","e","d",
          " ","a","n","a","l","y","s","i","s"," ","o","f"," ","q","u","e","r","y",
          " ","f","r","e","q","u","e","n","c","y","\n","xE2","x80","xA2"," ","P",
          "e","r","f","o","r","m","a","n","c","e"," ","g","a","i","n","s"," ","v",
          "a","r","y"," ","w","i","t","h"," ","d","a","t","a"," ","s","i","z","e",
          " ","a","n","d"," ","d","i","s","t","r","i","b","u","t","i","o","n">>]

\* MockGenerator.Complete (it returns no error): the template is chosen from
\* the lower-cased prompt.  Has is strings.Contains, as one test per position
\* (prompts are long).
Complete(prompt) ==
    LET lower == ToLower(prompt)
        Has(sub) == \E i \in 1..Len(lower) : HasPrefixAt(lower, i, sub)
    IN  IF Has(<<"j","o","i","n">>) THEN mockTemplates.join
        ELSE IF Has(<<"s","e","l","e","c","t"," ","*">>) THEN mockTemplates.select
        ELSE IF Has(<<"g","r","o","u","p"," ","b","y">>) \/ Has(<<"o","r","d","e","r"," ","b","y">>)
             THEN mockTemplates.aggregation
        ELSE IF Has(<<"s","l","e","e","p">>) THEN mockTemplates.sleep
        ELSE mockTemplates.generic

\* buildPromptTemplate: the prompt as text.  The tags of the pattern are printed
\* with %s; TagText gives their bytes.  context is the sequence of passages
\* Search found; the model's Search keeps none, so the block that lists them is
\* empty.
buildPromptTemplate(sql, pattern, context) ==
    LET TagText ==
            ("sleep-test" :> <<"s","l","e","e","p","-","t","e","s","t">>) @@
            ("complex-join" :> <<"c","o","m","p","l","e","x","-","j","o","i","n">>) @@
            ("simple-join" :> <<"s","i","m","p","l","e","-","j","o","i","n">>) @@
            ("aggregation" :> <<"a","g","g","r","e","g","a","t","i","o","n">>) @@
            ("pattern-search" :> <<"p","a","t","t","e","r","n","-","s","e","a","r","c","h">>) @@
            ("full-select" :> <<"f","u","l","l","-","s","e","l","e","c","t">>) @@
            ("filtered-select" :> <<"f","i","l","t","e","r","e","d","-","s","e","l","e","c","t">>) @@
            ("basic-select" :> <<"b","a","s","i","c","-","s","e","l","e","c","t">>) @@
            ("simple" :> <<"s","i","m","p","l","e">>) @@
            ("medium" :> <<"m","e","d","i","u","m">>) @@
            ("complex" :> <<"c","o","m","p","l","e","x">>) @@
            ("select-star" :> <<"s","e","l","e","c","t","-","s","t","a","r">>) @@
            ("leading-wildcard-like" :> <<"l","e","a","d","i","n","g","-","w","i","l","d","c","a","r","d","-","l","i","k","e">>) @@
            ("missing-limit" :> <<"m","i","s","s","i","n","g","-","l","i","m","i","t">>) @@
            ("cartesian-join" :> <<"c","a","r","t","e","s","i","a","n","-","j","o","i","n">>) @@
            ("function-in-where" :> <<"f","u","n","c","t","i","o","n","-","i","n","-","w","h","e","r","e">>) @@
            ("subquery-instead-of-join" :> <<"s","u","b","q","u","e","r","y","-","i","n","s","t","e","a","d","-","o","f","-","j","o","i","n">>) @@
            ("order-without-limit" :> <<"o","r","d","e","r","-","w","i","t","h","o","u","t","-","l","i","m","i","t">>) @@
            ("specify-columns" :> <<"s","p","e","c","i","f","y","-","c","o","l","u","m","n","s">>) @@
            ("optimize-like-patterns" :> <<"o","p","t","i","m","i","z","e","-","l","i","k","e","-","p","a","t","t","e","r","n","s">>) @@
            ("add-limit-clause" :> <<"a","d","d","-","l","i","m","i","t","-","c","l","a","u","s","e">>) @@
            ("explicit-join-syntax" :> <<"e","x","p","l","i","c","i","t","-","j","o","i","n","-","s","y","n","t","a","x">>) @@
            ("move-functions-to-select" :> <<"m","o","v","e","-","f","u","n","c","t","i","o","n","s","-","t","o","-","s","e","l","e","c","t">>) @@
            ("convert-to-join" :> <<"c","o","n","v","e","r","t","-","t","o","-","j","o","i","n">>) @@
            ("add-result-limiting" :> <<"a","d","d","-","r","e","s","u","l","t","-","l","i","m","i","t","i","n","g">>) @@
            ("index-group-by-columns" :> <<"i","n","d","e","x","-","g","r","o","u","p","-","b","y","-","c","o","l","u","m","n","s">>) @@
            ("index-join-columns" :> <<"i","n","d","e","x","-","j","o","i","n","-","c","o","l","u","m","n","s">>) @@
            ("index-where-columns" :> <<"i","n","d","e","x","-","w","h","e","r","e","-","c","o","l","u","m","n","s">>)
        RECURSIVE JoinComma(_)
        JoinComma(texts) ==
            IF texts = <<>> THEN <<>>
            ELSE IF Len(texts) = 1 THEN texts[1]
            ELSE texts[1] \o <<",", " ">> \o JoinComma(Tail(texts))
        TagList(list) == JoinComma([i \in DOMAIN list |-> TagText[list[i]]])
        focus ==
            CASE pattern.Type \in {"complex-join", "simple-join"} ->
                   <<"-"," ","O","p","t","i","m","i","z","e"," ","J","O","I","N"," ","o","r",
                   "d","e","r"," ","a","n","d"," ","a","l","g","o","r","i","t","h","m","s",
                   "\n","-"," ","E","n","s","u","r","e"," ","p","r","o","p","e","r"," ",
                   "i","n","d","e","x"," ","u","s","a","g","e"," ","o","n"," ","j","o","i",
                   "n"," ","c","o","l","u","m","n","s","\n","-"," ","C","o","n","s","i",
                   "d","e","r"," ","c","o","n","v","e","r","t","i","n","g"," ","s","u","b",
                   "q","u","e","r","i","e","s"," ","t","o"," ","J","O","I","N","s","\n">>
              [] pattern.Type = "aggregation" ->
                   <<"-"," ","O","p","t","i","m","i","z","e"," ","G","R","O","U","P"," ","B",
                   "Y"," ","a","n","d"," ","O","R","D","E","R"," ","B","Y"," ","p","e","r",
                   "f","o","r","m","a","n","c","e","\n","-"," ","U","s","e"," ","a","p",
                   "p","r","o","p","r","i","a","t","e"," ","i","n","d","e","x","e","s"," ",
                   "f","o","r"," ","a","g","g","r","e","g","a","t","i","o","n","\n","-",
                   " ","C","o","n","s","i","d","e","r"," ","p","r","e","-","f","i","l","t",
                   "e","r","i","n","g"," ","w","i","t","h"," ","W","H","E","R","E"," ","c",
                   "l","a","u","s","e","s","\n">>
              [] pattern.Type = "pattern-search" ->
                   <<"-"," ","O","p","t","i","m","i","z","e"," ","L","I","K","E"," ","p","a",
                   "t","t","e","r","n","s"," ","f","o","r"," ","i","n","d","e","x"," ","u",
                   "s","a","g","e","\n","-"," ","A","v","o","i","d"," ","l","e","a","d",
                   "i","n","g"," ","w","i","l","d","c","a","r","d","s"," ","w","h","e","n",
                   " ","p","o","s","s","i","b","l","e","\n","-"," ","C","o","n","s","i",
                   "d","e","r"," ","f","u","l","l","-","t","e","x","t"," ","s","e","a","r",
                   "c","h"," ","a","l","t","e","r","n","a","t","i","v","e","s","\n">>
              [] pattern.Type = "sleep-test" ->
                   <<"-"," ","R","e","m","o","v","e"," ","a","r","t","i","f","i","c","i","a",
                   "l"," ","d","e","l","a","y","s"," ","(","S","L","E","E","P"," ","f","u",
                   "n","c","t","i","o","n","s",")","\n","-"," ","R","e","p","l","a","c",
                   "e"," ","w","i","t","h"," ","e","f","f","i","c","i","e","n","t"," ","q",
                   "u","e","r","y"," ","p","a","t","t","e","r","n","s","\n","-"," ","E",
                   "n","s","u","r","e"," ","m","i","n","i","m","a","l"," ","r","e","s","o",
                   "u","r","c","e"," ","u","s","a","g","e","\n">>
              [] OTHER ->
                   <<"-"," ","A","p","p","l","y"," ","g","e","n","e","r","a","l"," ","S","Q",
                   "L"," ","o","p","t","i","m","i","z","a","t","i","o","n"," ","p","r","i",
                   "n","c","i","p","l","e","s","\n","-"," ","F","o","c","u","s"," ","o",
                   "n"," ","i","n","d","e","x"," ","u","s","a","g","e"," ","a","n","d"," ",
                   "q","u","e","r","y"," ","s","t","r","u","c","t","u","r","e","\n","-",
                   " ","M","i","n","i","m","i","z","e"," ","d","a","t","a"," ","p","r","o",
                   "c","e","s","s","i","n","g"," ","o","v","e","r","h","e","a","d","\n">>
    IN  <<"Y","o","u"," ","a","r","e"," ","a"," ","T","i","D","B"," ","p","e","r",
        "f","o","r","m","a","n","c","e"," ","e","x","p","e","r","t"," ","s","p",
        "e","c","i","a","l","i","z","i","n","g"," ","i","n"," ","S","Q","L"," ",
        "o","p","t","i","m","i","z","a","t","i","o","n","."," ","A","n","a","l",
        "y","z","e"," ","t","h","e"," ","p","r","o","v","i","d","e","d"," ","s",
        "l","o","w"," ","q","u","e","r","y"," ","a","n","d"," ","s","u","g","g",
        "e","s","t"," ","c","o","n","c","r","e","t","e"," ","o","p","t","i","m",
        "i","z","a","t","i","o","n","s",".","\n","\n","S","L","O","W"," ","Q",
        "U","E","R","Y"," ","A","N","A","L","Y","S","I","S",":","\n">>
        \o <<"Q","u","e","r","y"," ","T","y","p","e",":"," ">> \o TagText[pattern.Type] \o <<"\n">>
        \o <<"C","o","m","p","l","e","x","i","t","y",":"," ">> \o TagText[pattern.Complexity] \o <<"\n">>
        \o <<"T","a","b","l","e","s",":"," ">> \o JoinComma(pattern.Tables) \o <<"\n">>
        \o (IF Len(pattern.AntiPatterns) > 0
            THEN <<"A","n","t","i","-","p","a","t","t","e","r","n","s"," ","d","e","t","e","c","t","e","d",":"," ">>
                 \o TagList(pattern.AntiPatterns) \o <<"\n">>
            ELSE <<>>)
        \o (IF Len(pattern.OptimizationOps) > 0
            THEN <<"O","p","t","i","m","i","z","a","t","i","o","n"," ","o","p","p","o","r","t","u","n","i","t","i","e","s",":"," ">>
                 \o TagList(pattern.OptimizationOps) \o <<"\n">>
            ELSE <<>>)
        \o <<"\n">>
        \o <<"O","R","I","G","I","N","A","L"," ","Q","U","E","R","Y",":","\n","x60","x60","x60","s","q","l","\n">>
        \o sql
        \o <<"\n","x60","x60","x60","\n","\n">>
        \o (IF Len(context) > 0
            THEN <<"R","E","L","E","V","A","N","T"," ","T","I","D","B"," ","O","P","T","I","M","I","Z","A","T","I","O","N"," ","K","N","O","W","L","E","D","G","E",":","\n">>
            ELSE <<>>)
        \o <<"I","N","S","T","R","U","C","T","I","O","N","S",":","\n","B","a","s",
           "e","d"," ","o","n"," ","t","h","e"," ","q","u","e","r","y"," ","a","n",
           "a","l","y","s","i","s"," ","a","n","d"," ","T","i","D","B"," ","o","p",
           "t","i","m","i","z","a","t","i","o","n"," ","k","n","o","w","l","e","d",
           "g","e"," ","a","b","o","v","e",","," ","p","r","o","v","i","d","e"," ",
           "a"," ","c","o","m","p","r","e","h","e","n","s","i","v","e"," ","o","p",
           "t","i","m","i","z","a","t","i","o","n",".","\n","F","o","c","u","s",
           " ","o","n"," ","t","h","e"," ","d","e","t","e","c","t","e","d"," ","a",
           "n","t","i","-","p","a","t","t","e","r","n","s"," ","a","n","d"," ","o",
           "p","t","i","m","i","z","a","t","i","o","n"," ","o","p","p","o","r","t",
           "u","n","i","t","i","e","s",".","\n","\n","F","O","R","M","A","T"," ",
           "Y","O","U","R"," ","R","E","S","P","O","N","S","E"," ","E","X","A","C",
           "T","L","Y"," ","A","S"," ","F","O","L","L","O","W","S",":","\n","\n",
           "P","R","O","P","O","S","E","D","_","S","Q","L",":","\n","x60","x60",
           "x60","s","q","l","\n","[","Y","o","u","r"," ","o","p","t","i","m","i",
           "z","e","d"," ","q","u","e","r","y"," ","h","e","r","e","]","\n","x60",
           "x60","x60","\n","\n","R","A","T","I","O","N","A","L","E",":","\n",
           "xE2","x80","xA2"," ","[","P","r","i","m","a","r","y"," ","o","p","t",
           "i","m","i","z","a","t","i","o","n"," ","a","p","p","l","i","e","d","]",
           "\n","xE2","x80","xA2"," ","[","S","e","c","o","n","d","a","r","y"," ",
           "i","m","p","r","o","v","e","m","e","n","t","s"," ","m","a","d","e","]",
           "\n","xE2","x80","xA2"," ","[","W","h","y"," ","t","h","i","s"," ","a",
           "p","p","r","o","a","c","h"," ","w","a","s"," ","c","h","o","s","e","n",
           "]","\n","\n","E","X","P","E","C","T","E","D","_","P","L","A","N","_",
           "C","H","A","N","G","E",":","\n","xE2","x80","xA2"," ","[","I","n","d",
           "e","x"," ","u","s","a","g","e"," ","i","m","p","r","o","v","e","m","e",
           "n","t","s","]","\n","xE2","x80","xA2"," ","[","J","o","i","n"," ","o",
           "r","d","e","r"," ","o","p","t","i","m","i","z","a","t","i","o","n","s",
           "]","\n","xE2","x80","xA2"," ","[","R","o","w"," ","r","e","d","u","c",
           "t","i","o","n"," ","t","e","c","h","n","i","q","u","e","s","]","\n",
           "\n","C","A","V","E","A","T","S",":","\n","xE2","x80","xA2"," ","[","A",
           "n","y"," ","s","e","m","a","n","t","i","c"," ","d","i","f","f","e","r",
           "e","n","c","e","s","]","\n","xE2","x80","xA2"," ","[","P","e","r","f",
           "o","r","m","a","n","c","e"," ","a","s","s","u","m","p","t","i","o","n",
           "s"," ","m","a","d","e","]","\n","xE2","x80","xA2"," ","[","E","d","g",
           "e"," ","c","a","s","e","s"," ","t","o"," ","m","o","n","i","t","o","r",
           "]","\n","\n","O","P","T","I","M","I","Z","A","T","I","O","N"," ","F",
           "O","C","U","S",":","\n">>
        \o focus

\* oe.parseLLMResponse for each text the mock generator returns, computed once
mockParsed ==
    [text \in {mockTemplates[name] : name \in DOMAIN mockTemplates} |->
        parseLLMResponse(text)]

\* the call and step 1, for the statements of PatternInputs
MockOptimizeStart(slowQueryID, sql) ==
    /\ pc = "idle"
    /\ Len(rows) < MaxRows
    /\ \E pattern \in AnalyzeQuery(sql) :
         call' = [active |-> TRUE, cancelled |-> FALSE,
                  slowQueryID |-> slowQueryID, sql |-> sql,
                  pattern |-> pattern, llmResponse |-> <<>>]
    /\ pc' = "prompt"
    /\ env' = NoEnv
    /\ UNCHANGED <<rows, nextId, clock, ret, chunker, scorer, analyzer, store, embedCall, builder, reviews>>

\* steps 3 to 6 with the mock generator: Complete is given the prompt built in
\* step 2, its text is parsed and scored and the result stored
MockGenerateParseScoreStore ==
    /\ pc = "generate"
    /\ LET text   == Complete(buildPromptTemplate(call.sql, call.pattern, <<>>))
           parsed == mockParsed[text]
       IN  /\ env' = [env EXCEPT !.genCalls = @ + 1, !.gen = "ok", !.genText = text]
           /\ IF parsed.err
              THEN OptimizeFails(<<"failed to parse LLM response",
                        "failed to extract optimized SQL from LLM response">>)
              ELSE \E stored \in {storeOptimizationResult(rows, nextId,
                                     call.slowQueryID,
                                     newResult(call.sql, call.pattern,
                                               parsed.parsed, clock))} :
                     /\ rows' = stored.table
                     /\ nextId' = nextId + 1
                     /\ ret' = [op |-> "OptimizeQuery", id |-> stored.result.ID,
                                err |-> ErrNil, result |-> <<stored.result>>]
                     /\ pc' = "idle"
                     /\ call' = NoCall
                     /\ UNCHANGED <<clock, chunker, scorer, analyzer, store, embedCall, builder, reviews>>

MockSpec ==
    Init /\ [][\/ \E slowQueryID \in SlowQueryIds, sql \in PatternInputs :
                     MockOptimizeStart(slowQueryID, sql)
               \/ BuildPromptStep
               \/ MockGenerateParseScoreStore]_vars

(***************************************************************************)
(* Properties.                                                             *)
(***************************************************************************)

ReviewOps == {"AcceptOptimization", "RejectOptimization"}
StatusAfter(op) == IF op = "AcceptOptimization" THEN "accepted" ELSE "rejected"

\* C1: the review state machine. In every step, a stored result keeps its id; a
\* result that is accepted or rejected keeps its status; a status changes only
\* from pending, only by a review call on that id that returns no error, and
\* only to the status of that call. A review call succeeds exactly when the
\* table holds a pending result with the id; otherwise it returns "optimization
\* not found or already reviewed" and changes no row.
C1_ReviewStateMachine ==
    [][/\ Len(rows') >= Len(rows)
       /\ \A i \in 1..Len(rows) :
            /\ rows'[i].id = rows[i].id
            /\ rows[i].status \in {"accepted", "rejected"}
                  => rows'[i].status = rows[i].status
            /\ rows'[i].status # rows[i].status
                  => /\ rows[i].status = "pending"
                     /\ ret'.op \in ReviewOps
                     /\ ret'.id = rows[i].id
                     /\ ret'.err = ErrNil
                     /\ rows'[i].status = StatusAfter(ret'.op)
       /\ (ret' # ret /\ ret'.op \in ReviewOps)
            => IF \E i \in 1..Len(rows) :
                     rows[i].id = ret'.id /\ rows[i].status = "pending"
               THEN ret'.err = ErrNil
               ELSE ret'.err = ErrNotFoundOrReviewed /\ rows' = rows]_vars

\* a RejectOptimization call on an accepted result has failed
C1_Witness ==
    \E i \in 1..Len(rows) :
      /\ rows[i].status = "accepted"
      /\ ret.op = "RejectOptimization"
      /\ ret.id = rows[i].id
      /\ ret.err = ErrNotFoundOrReviewed

\* C2: reviewed_at is written once. A pending result has no reviewed_at and a
\* reviewed one has; once set, reviewed_at never changes; AcceptOptimization on
\* a pending result succeeds and sets reviewed_at to the time of the call, and
\* AcceptOptimization on a result that is not pending (so a second accept) fails
\* with "optimization not found or already reviewed" and leaves the row as it is.
C2_ReviewedAtWrittenOnce ==
    [][\A i \in 1..Len(rows) :
         /\ (rows[i].status = "pending") = ~rows[i].reviewed_at.Valid
         /\ rows[i].reviewed_at.Valid
               => rows'[i].reviewed_at = rows[i].reviewed_at
         /\ (ret' # ret /\ ret'.op = "AcceptOptimization"
                        /\ ret'.id = rows[i].id)
               => IF rows[i].status = "pending"
                  THEN /\ ret'.err = ErrNil
                       /\ rows'[i].status = "accepted"
                       /\ rows'[i].reviewed_at = TimeOf(clock)
                  ELSE /\ ret'.err = ErrNotFoundOrReviewed
                       /\ rows'[i] = rows[i]]_vars

\* a second AcceptOptimization, made after the clock has moved on, has failed and
\* the result still carries the time of the first
C2_Witness ==
    \E i \in 1..Len(rows) :
      /\ rows[i].status = "accepted"
      /\ rows[i].reviewed_at.Valid
      /\ rows[i].reviewed_at.Time < clock
      /\ ret.op = "AcceptOptimization"
      /\ ret.id = rows[i].id
      /\ ret.err = ErrNotFoundOrReviewed

\* raw holds the marker PROPOSED_SQL:, then only white space, then an opening
\* ```sql fence at k and a closing ``` fence at c
FencedProposalAt(raw, i, k, c) ==
    /\ HasPrefixAt(raw, i, sqlMarker)
    /\ k >= i + Len(sqlMarker)
    /\ \A x \in (i + Len(sqlMarker))..(k - 1) : raw[x] \in RegexSpace
    /\ HasPrefixAt(raw, k, sqlFence)
    /\ c >= k + Len(sqlFence)
    /\ HasPrefixAt(raw, c, fenceEnd)

HasFencedProposal(raw) ==
    \E i \in 1..Len(raw) : \E k \in i..Len(raw) : \E c \in k..Len(raw) :
      FencedProposalAt(raw, i, k, c)

\* the one fenced block raw holds after its one marker is empty or white space
HasBlankFencedProposal(raw) ==
    /\ Count(raw, sqlMarker) = 1
    /\ \E i \in 1..Len(raw) :
         /\ HasPrefixAt(raw, i, sqlMarker)
         /\ \E k \in i..Len(raw) :
              /\ HasPrefixAt(raw, k, sqlFence)
              /\ \E c \in k..Len(raw) :
                   /\ FencedProposalAt(raw, i, k, c)
                   /\ \A x \in (k + Len(sqlFence))..(c - 1) : raw[x] \in RegexSpace

TextsWithoutFencedProposal == {text \in GeneratorTexts : ~HasFencedProposal(text)}
TextsWithBlankProposal == {text \in GeneratorTexts : HasBlankFencedProposal(text)}

\* the last OptimizeQuery call has returned and nothing was called since
OptimizeReturned == pc = "idle" /\ ret.op = "OptimizeQuery"

\* C3: when the text the Generator returned holds no PROPOSED_SQL: marker
\* followed by a fenced block, the step that parses it ends the call with the
\* error "failed to parse LLM response: ..." and returns no result, and the
\* table is the same after the step as before it.
C3_NoFencedBlockIsParseError ==
    [][(pc = "parse" /\ pc' # "parse"
          /\ call.llmResponse \in TextsWithoutFencedProposal)
         => /\ pc' = "idle"
            /\ ret'.op = "OptimizeQuery"
            /\ ret'.err # ErrNil
            /\ ret'.err[1] = "failed to parse LLM response"
            /\ ret'.result = <<>>
            /\ rows' = rows]_vars

\* a call on a non-empty table has failed to parse a text that holds the marker
\* and no fenced block
C3_Witness ==
    /\ OptimizeReturned
    /\ env.gen = "ok"
    /\ env.genText \in TextsWithoutFencedProposal
    /\ Contains(env.genText, sqlMarker)
    /\ ret.err # ErrNil
    /\ rows # <<>>

\* C4: every stored result and every result OptimizeQuery returns has a
\* non-empty optimized SQL; and a call whose Generator text had an empty or
\* white-space-only fenced block has returned the parse error and no result.
C4_OptimizedSqlNeverEmpty ==
    /\ \A i \in 1..Len(rows) : rows[i].optimized_sql # <<>>
    /\ \A i \in 1..Len(ret.result) : ret.result[i].OptimizedSQL # <<>>
    /\ (OptimizeReturned /\ env.gen = "ok"
          /\ env.genText \in TextsWithBlankProposal)
         => /\ ret.err # ErrNil
            /\ ret.err[1] = "failed to parse LLM response"
            /\ ret.result = <<>>

\* a call whose Generator text had a white-space-only block has failed
C4_Witness ==
    /\ OptimizeReturned
    /\ env.gen = "ok"
    /\ env.genText \in TextsWithBlankProposal
    /\ \E x \in 1..Len(env.genText) : env.genText[x] = "\t"
    /\ ret.err # ErrNil

\* C5: the step in which OptimizeQuery returns without error adds exactly one
\* row and leaves the others as they are; the new row is pending, has no
\* reviewed_at, is for the call's slow query and statement, and carries an id no
\* other row has; the result returned carries that id.
C5_OneNewPendingRow ==
    [][(pc = "parse" /\ pc' = "idle" /\ ret'.err = ErrNil)
         => /\ Len(rows') = Len(rows) + 1
            /\ SubSeq(rows', 1, Len(rows)) = rows
            /\ LET new == rows'[Len(rows')]
               IN  /\ new.status = "pending"
                   /\ ~new.reviewed_at.Valid
                   /\ new.slow_query_id = call.slowQueryID
                   /\ new.original_sql = call.sql
                   /\ \A i \in 1..Len(rows) : rows[i].id # new.id
                   /\ ret'.op = "OptimizeQuery"
                   /\ ret'.id = new.id
                   /\ Len(ret'.result) = 1
                   /\ ret'.result[1].ID = new.id
                   /\ ret'.result[1].Status = "pending"
                   /\ ~ret'.result[1].ReviewedAt.Valid]_vars

\* two calls for the same slow query and the same statement have left two
\* rows with different ids, and the second call has returned the second id
C5_Witness ==
    /\ Len(rows) = 2
    /\ rows[1].slow_query_id = rows[2].slow_query_id
    /\ rows[1].original_sql = rows[2].original_sql
    /\ rows[1].id # rows[2].id
    /\ OptimizeReturned
    /\ ret.err = ErrNil
    /\ ret.id = rows[2].id

\* C6: the step in which Generator.Complete fails ends the call with the error
\* "failed to generate optimization: ...", with Complete called once in the
\* call, no result returned and the table unchanged.
C6_GeneratorErrorAborts ==
    [][(pc = "generate" /\ env' # env /\ env'.gen = "error")
         => /\ pc' = "idle"
            /\ ret'.op = "OptimizeQuery"
            /\ ret'.err # ErrNil
            /\ ret'.err[1] = "failed to generate optimization"
            /\ ret'.result = <<>>
            /\ env'.genCalls = 1
            /\ rows' = rows]_vars

\* a call on a non-empty table has returned the generation error
C6_Witness ==
    /\ OptimizeReturned
    /\ env.gen = "error"
    /\ env.genCalls = 1
    /\ ret.err = <<"failed to generate optimization", "generator error">>
    /\ rows # <<>>

\* C7: when the Embedder fails during retrieval, Search returns an error,
\* BuildOptimizationPrompt fails, and the step ends the call with the error chain
\* "failed to build optimization prompt: failed to retrieve context: failed to
\* generate query embedding: ..."; the Generator has not been called and the
\* table is unchanged.
C7_EmbedderErrorAborts ==
    [][(pc = "prompt" /\ env' # env /\ env'.embed = "error")
         => /\ Search("error").err # ErrNil
            /\ BuildOptimizationPrompt(call.sql, call.pattern, "error").err
                 # ErrNil
            /\ pc' = "idle"
            /\ ret'.op = "OptimizeQuery"
            /\ ret'.err = <<"failed to build optimization prompt",
                            "failed to retrieve context",
                            "failed to generate query embedding",
                            "embedder error">>
            /\ ret'.result = <<>>
            /\ env'.genCalls = 0
            /\ rows' = rows]_vars

\* a call on a non-empty table has returned the retrieval error
C7_Witness ==
    /\ OptimizeReturned
    /\ env.embed = "error"
    /\ env.genCalls = 0
    /\ ret.err # ErrNil
    /\ ret.err[1] = "failed to build optimization prompt"
    /\ rows # <<>>

\* C8: a call whose ctx has been cancelled before it returns, returns an error
\* and leaves the table as it was.
C8_CancelledCallAborts ==
    [][(pc # "idle" /\ call.cancelled /\ pc' = "idle")
         => (ret'.err # ErrNil /\ rows' = rows)]_vars

\* C9: the confidence score of every stored result and of every returned result
\* lies in [0.1, 1.0] (10..100 hundredths), for every pattern and parsed
\* response the scoring step is given.
C9_ConfidenceInRange ==
    /\ \A i \in 1..Len(rows) :
         rows[i].confidence_score >= 10 /\ rows[i].confidence_score <= 100
    /\ \A i \in 1..Len(ret.result) :
         /\ ret.result[i].ConfidenceScore >= 10
         /\ ret.result[i].ConfidenceScore <= 100

\* a result whose adjustments add up to more than 1.0 has been stored with 1.0
C9_Witness ==
    /\ scorer.pc = "done"
    /\ confidenceAdjustments(scorer.pattern, scorer.response) > 100
    /\ Len(rows) = 1
    /\ rows[1].confidence_score = 100

\* C10: chunkText never slices outside the text, and every pass of its loop
\* that does not end the loop moves the window forward (so the loop ends).
C10_ChunkTextTerminates ==
    [][/\ chunker'.pc # "panicked"
       /\ (chunker.pc = "loop" /\ chunker'.pc = "loop")
            => chunker'.start > chunker.start]_vars

\* the chunks put together again: the first whole, every later one without its
\* first overlap bytes
RECURSIVE Reassemble(_, _)
Reassemble(chunks, overlap) ==
    IF chunks = <<>> THEN <<>>
    ELSE IF Len(chunks) = 1 THEN chunks[1]
    ELSE LET last == chunks[Len(chunks)]
         IN  Reassemble(SubSeq(chunks, 1, Len(chunks) - 1), overlap)
             \o SubSeq(last, overlap + 1, Len(last))

\* C11: the chunking round trip. When chunkText has returned for a call with
\* chunkSize > overlap >= 0, its chunks put together with the overlaps removed
\* are the text; every chunk but the last has chunkSize bytes, the last at most
\* chunkSize, and every later chunk is longer than the overlap taken from it.
C11_ChunkRoundTrip ==
    (chunker.pc = "returned" /\ chunker.chunkSize > chunker.overlap)
      => /\ chunker.chunks # <<>>
         /\ Reassemble(chunker.chunks, chunker.overlap) = chunker.text
         /\ \A i \in 1..(Len(chunker.chunks) - 1) :
              Len(chunker.chunks[i]) = chunker.chunkSize
         /\ Len(chunker.chunks[Len(chunker.chunks)]) <= chunker.chunkSize
         /\ \A i \in 2..Len(chunker.chunks) :
              Len(chunker.chunks[i]) > chunker.overlap

\* a text of both letters has been cut with an overlap into several chunks,
\* the last of them shorter than chunkSize
C11_Witness ==
    /\ chunker.pc = "returned"
    /\ chunker.chunkSize > chunker.overlap
    /\ chunker.overlap >= 1
    /\ Len(chunker.chunks) >= 2
    /\ Len(chunker.chunks[Len(chunker.chunks)]) < chunker.chunkSize
    /\ \E i, j \in 1..Len(chunker.text) : chunker.text[i] # chunker.text[j]

\* the lower-cased statement the detectors of AnalyzeQuery look at
Lowered(sql) == ToLower(TrimSpace(sql))
SeqRange(s) == {s[i] : i \in DOMAIN s}

\* C12: two calls of AnalyzeQuery on the same statement return identical
\* patterns, the order of Keywords included.
C12_AnalyzeDeterministic ==
    analyzer.pc = "call" =>
        \A i, j \in DOMAIN analyzer.results : analyzer.results[i] = analyzer.results[j]

\* statements without sleep( and without join that hold a LIKE with a leading
\* wildcard and an ORDER BY without LIMIT
LikeOrderByNoLimit(sql) ==
    LET s == Lowered(sql)
    IN  /\ ~Contains(s, <<"s","l","e","e","p","(">>)
        /\ ~Contains(s, <<"j","o","i","n">>)
        /\ Contains(s, <<"l","i","k","e"," ","'","%">>)
        /\ Contains(s, <<"o","r","d","e","r"," ","b","y">>)
        /\ ~Contains(s, <<"l","i","m","i","t">>)

\* C13: for a statement without sleep( and JOIN that holds a LIKE with a leading
\* wildcard and an ORDER BY without LIMIT, AnalyzeQuery returns the type
\* pattern-search and anti-patterns that include leading-wildcard-like,
\* order-without-limit and missing-limit.
C13_LikeOrderByIsPatternSearch ==
    (analyzer.pc = "call" /\ LikeOrderByNoLimit(analyzer.sql)) =>
        \A i \in DOMAIN analyzer.results :
            /\ analyzer.results[i].Type = "pattern-search"
            /\ {"leading-wildcard-like", "order-without-limit", "missing-limit"}
                   \subseteq SeqRange(analyzer.results[i].AntiPatterns)

\* the text of the FROM clause of a lower-cased statement: from the first " from "
\* to the next " where ", " order by " or " limit ", or to the end
FromClauseOf(s) ==
    LET from  == IndexFrom(s, 1, <<" ","f","r","o","m"," ">>)
        start == from + 6
        ends  == {e \in start..Len(s) :
                     \/ HasPrefixAt(s, e, <<" ","w","h","e","r","e"," ">>)
                     \/ HasPrefixAt(s, e, <<" ","o","r","d","e","r"," ","b","y"," ">>)
                     \/ HasPrefixAt(s, e, <<" ","l","i","m","i","t"," ">>)}
        end   == IF ends = {} THEN Len(s) + 1
                 ELSE CHOOSE e \in ends : \A f \in ends : e <= f
    IN  IF from = 0 THEN <<>> ELSE SubSeq(s, start, end - 1)

\* a comma-separated table list in the FROM clause and no join keyword
CommaJoin(sql) ==
    LET s == Lowered(sql)
    IN  /\ Contains(FromClauseOf(s), <<",">>)
        /\ ~Contains(s, <<"j","o","i","n">>)

\* C14: AnalyzeQuery reports cartesian-join exactly for the statements whose FROM
\* clause holds a comma-separated table list and that hold no join keyword, and
\* for those statements the type is neither simple-join nor complex-join.
C14_CartesianJoinOnlyForCommaFrom ==
    analyzer.pc = "call" =>
        \A i \in DOMAIN analyzer.results :
            /\ ("cartesian-join" \in SeqRange(analyzer.results[i].AntiPatterns))
                   <=> CommaJoin(analyzer.sql)
            /\ CommaJoin(analyzer.sql) =>
                   analyzer.results[i].Type \notin {"simple-join", "complex-join"}

\* the distance of stored chunk i to the query vector of the last Search
StoredDistance(i) == CosineDistance(store.embeddings[i].embedding, store.last.query[1])
\* the stored chunks at distance d, and the results of the last Search at distance d
StoredAt(d) == {i \in DOMAIN store.embeddings : StoredDistance(i) = d}
ReturnedAt(d) == {k \in DOMAIN store.last.results : store.last.results[k].Score = 100 - d}
SearchReturned == store.pc = "ready" /\ store.last.op = "Search" /\ store.last.err = ErrNil

\* C15: a successful Search(query, topK) returns at most topK results, each a
\* stored chunk (with the title of its document) whose cosine distance to the
\* query vector is below 0.5, by ascending distance, with score = 1 - distance;
\* no stored chunk within the threshold that is closer than a returned one is
\* left out, and fewer than topK results are returned only when no chunk within
\* the threshold is left out.
C15_SearchTopKWithinThreshold ==
    SearchReturned =>
        LET results == store.last.results
        IN  /\ Len(results) <= store.last.topK
            /\ \A k \in DOMAIN results :
                 \E i \in DOMAIN store.embeddings :
                   /\ results[k].Text = store.embeddings[i].text
                   /\ \E d \in DOMAIN store.documents :
                        /\ store.documents[d].id = store.embeddings[i].doc_id
                        /\ store.documents[d].title = results[k].Document
                   /\ StoredDistance(i) < DistanceThreshold
                   /\ results[k].Score = 100 - StoredDistance(i)
            /\ \A k \in 1..(Len(results) - 1) : results[k].Score >= results[k + 1].Score
            /\ \A d \in 0..(DistanceThreshold - 1) :
                 /\ Cardinality(ReturnedAt(d)) <= Cardinality(StoredAt(d))
                 /\ (\/ \E k \in DOMAIN results : results[k].Score < 100 - d
                     \/ Len(results) < store.last.topK)
                       => Cardinality(ReturnedAt(d)) = Cardinality(StoredAt(d))

\* a Search that returned topK = 2 results at different distances, left a third
\* chunk within the threshold out, and passed over a chunk at the threshold
C15_Witness ==
    /\ SearchReturned
    /\ store.last.topK = 2
    /\ Len(store.last.results) = 2
    /\ store.last.results[1].Score > store.last.results[2].Score
    /\ \E i \in DOMAIN store.embeddings : StoredDistance(i) = DistanceThreshold
    /\ Cardinality({i \in DOMAIN store.embeddings :
                      StoredDistance(i) < DistanceThreshold}) >= 3

\* the chunks a document owns, in the order of their rows
ChunksOf(st, title) ==
    LET docID == st.documents[CHOOSE d \in DOMAIN st.documents :
                                 st.documents[d].title = title].id
        Owned(r) == r.doc_id = docID
    IN  SelectSeq(st.embeddings, Owned)

C18_EmbedRejectsEmptyInput ==
    embedCall.pc = "returned" =>
        /\ embedCall.texts = <<>> => embedCall.err # ErrNil
        /\ embedCall.err = ErrNil =>
             /\ Len(embedCall.embeddings) = Len(embedCall.texts)
             /\ embedCall.embedder.provider = "mock" =>
                  \A i \in DOMAIN embedCall.texts :
                      embedCall.embeddings[i] =
                          generateDeterministicEmbedding(embedCall.embedder,
                                                         embedCall.texts[i])

ListReturned == ret.op = "ListPendingOptimizations" /\ ret.err = ErrNil
\* result a is not after result b in the order of ListPendingOptimizations
ResultNotAfter(a, b) ==
    \/ a.ConfidenceScore > b.ConfidenceScore
    \/ a.ConfidenceScore = b.ConfidenceScore /\ a.CreatedAt >= b.CreatedAt

\* C19: ListPendingOptimizations(limit) returns at most limit results, each a
\* stored result whose status is pending (so none that was accepted or
\* rejected), by descending confidence score and, among equal scores, by
\* descending creation time; a pending result is left out only when limit
\* results that are not after it are returned.
C19_ListPendingOrdered ==
    ListReturned =>
        /\ Len(ret.result) <= ret.id
        /\ \A k \in DOMAIN ret.result :
             /\ ret.result[k].Status = "pending"
             /\ \E i \in DOMAIN rows :
                  /\ rows[i].id = ret.result[k].ID
                  /\ rows[i].status = "pending"
                  /\ rows[i].confidence_score = ret.result[k].ConfidenceScore
                  /\ rows[i].created_at = ret.result[k].CreatedAt
        /\ \A k, l \in DOMAIN ret.result : k # l => ret.result[k].ID # ret.result[l].ID
        /\ \A k \in 1..(Len(ret.result) - 1) :
             ResultNotAfter(ret.result[k], ret.result[k + 1])
        /\ \A i \in DOMAIN rows :
             (/\ rows[i].status = "pending"
              /\ \A k \in DOMAIN ret.result : ret.result[k].ID # rows[i].id)
               => /\ Len(ret.result) = ret.id
                  /\ \A k \in DOMAIN ret.result :
                       ResultNotAfter(ret.result[k], scanResult(rows[i]))

\* a list of two results with the same score in descending creation time, with
\* a third pending result left out and an accepted result of a higher score
C19_Witness ==
    /\ ListReturned
    /\ ret.id = 2
    /\ Len(ret.result) = 2
    /\ ret.result[1].ConfidenceScore = ret.result[2].ConfidenceScore
    /\ ret.result[1].CreatedAt > ret.result[2].CreatedAt
    /\ \E i \in DOMAIN rows :
         /\ rows[i].status = "accepted"
         /\ rows[i].confidence_score > ret.result[1].ConfidenceScore
    /\ Len(rows) = 3

\* C20: GetOptimizationByID fails with "not found" for an id no stored result
\* has, and ListPendingOptimizations fails with "not found" when no stored
\* result is pending.
C20_ReadsFailWhenAbsent ==
    /\ (ret.op = "GetOptimizationByID" /\ \A i \in DOMAIN rows : rows[i].id # ret.id)
         => ret.err = <<"optimization result not found">>
    /\ (ret.op = "ListPendingOptimizations"
        /\ \A i \in DOMAIN rows : rows[i].status # "pending")
         => ret.err # ErrNil

\* the eight tests of the classification on a lower-cased statement, in their
\* priority order, each with its type; the JOIN keywords of the statements of
\* PatternInputs are the words join between two spaces
TypeTests(s) ==
    LET joins == Count(s, <<" ","j","o","i","n"," ">>)
    IN  << <<Contains(s, <<"s","l","e","e","p","(">>), "sleep-test">>,
           <<joins >= 3, "complex-join">>,
           <<joins >= 1, "simple-join">>,
           <<Contains(s, <<"g","r","o","u","p"," ","b","y">>) \/ Contains(s, <<"o","r","d","e","r"," ","b","y">>), "aggregation">>,
           <<Contains(s, <<"l","i","k","e">>) /\ Contains(s, <<"%">>), "pattern-search">>,
           <<Contains(s, <<"s","e","l","e","c","t"," ","*">>), "full-select">>,
           <<Contains(s, <<"w","h","e","r","e">>), "filtered-select">>,
           <<TRUE, "basic-select">> >>

\* C21: the type AnalyzeQuery returns is the type of the first test, in the
\* priority order sleep( / three joins / one join / GROUP BY or ORDER BY /
\* LIKE and % / SELECT * / WHERE / none, that holds of the lower-cased statement.
C21_TypeIsFirstMatch ==
    analyzer.pc = "call" =>
        \A i \in DOMAIN analyzer.results :
            LET tests == TypeTests(Lowered(analyzer.sql))
                first == CHOOSE k \in DOMAIN tests :
                            tests[k][1] /\ \A j \in 1..(k - 1) : ~tests[j][1]
            IN  analyzer.results[i].Type = tests[first][2]

\* a statement with ORDER BY, LIKE with %, SELECT * and WHERE was analyzed: four
\* tests hold and the first of them decides
C21_Witness ==
    /\ analyzer.pc = "call"
    /\ Len(analyzer.results) = 1
    /\ LET tests == TypeTests(Lowered(analyzer.sql))
       IN  /\ \A k \in 1..3 : ~tests[k][1]
           /\ \A k \in 4..8 : tests[k][1]
    /\ analyzer.results[1].Type = "aggregation"

\* a parenthesized sub-SELECT of a lower-cased statement opens at i: the word
\* select stands between the parenthesis at i and the next closing one
SubSelectAt(s, i) ==
    LET close == IndexFrom(s, i + 1, <<")">>)
        sel   == IndexFrom(s, i + 1, <<"s","e","l","e","c","t">>)
    IN  s[i] = "(" /\ close # 0 /\ sel # 0 /\ sel + 6 <= close

\* the number of parenthesized sub-SELECTs (they do not nest in PatternInputs)
SubSelects(s) == Cardinality({i \in 1..Len(s) : SubSelectAt(s, i)})

\* C22: for a statement that holds a parenthesized sub-SELECT and an IN (, in
\* any letter case, AnalyzeQuery reports the anti-pattern
\* subquery-instead-of-join and the opportunity convert-to-join.
C22_SubSelectWithInIsReported ==
    analyzer.pc = "call" =>
        \A i \in DOMAIN analyzer.results :
            (/\ SubSelects(Lowered(analyzer.sql)) > 0
             /\ Contains(Lowered(analyzer.sql), <<"i","n"," ","(">>)) =>
                /\ "subquery-instead-of-join" \in SeqRange(analyzer.results[i].AntiPatterns)
                /\ "convert-to-join" \in SeqRange(analyzer.results[i].OptimizationOps)

\* the complexity score of a lower-cased statement with tableCount tables
ReferenceScore(s, tableCount) ==
      (IF tableCount >= 4 THEN 3 ELSE IF tableCount >= 2 THEN 1 ELSE 0)
    + Count(s, <<" ","j","o","i","n"," ">>)
    + 2 * SubSelects(s)
    + (IF Contains(s, <<"g","r","o","u","p"," ","b","y">>) THEN 1 ELSE 0)
    + (IF Contains(s, <<"h","a","v","i","n","g">>) THEN 1 ELSE 0)
    + (IF Contains(s, <<"w","i","n","d","o","w">>) \/ Contains(s, <<"o","v","e","r","(">>) THEN 2 ELSE 0)
    + (IF Contains(s, <<"u","n","i","o","n">>) THEN 2 ELSE 0)

\* C23: the complexity AnalyzeQuery returns is the class of the score (3 for
\* four tables or 1 for two, the JOINs, 2 for each parenthesized sub-SELECT, 1
\* for GROUP BY, 1 for HAVING, 2 for WINDOW or OVER(, 2 for UNION): complex
\* from 6, medium from 3, else simple; the score assessComplexity adds up is
\* that score, so a sub-SELECT adds 2 to it.
C23_ComplexityIsClassOfScore ==
    analyzer.pc = "call" =>
        \A i \in DOMAIN analyzer.results :
            LET s     == Lowered(analyzer.sql)
                n     == Len(analyzer.results[i].Tables)
                score == ReferenceScore(s, n)
            IN  /\ analyzer.results[i].Complexity =
                      IF score >= 6 THEN "complex" ELSE IF score >= 3 THEN "medium" ELSE "simple"
                /\ complexityScore(s, n) = score

\* the reference score, in hundredths, of a pattern and a parsed response
ReferenceConfidence(pattern, response) ==
    LET c == [simple |-> 30, medium |-> 10, complex |-> -10][pattern.Complexity]
        a == IF pattern.AntiPatterns # <<>> THEN 20 ELSE 0
        o == IF Len(pattern.OptimizationOps) >= 3 THEN 15 ELSE 0
        r == IF Len(response.Rationale) >= 51 THEN 10 ELSE 0
        p == IF Len(response.ExpectedPlanChange) >= 51 THEN 10 ELSE 0
        i == IF \E k \in 1..(Len(response.ProposedSQL) - 4) :
                    /\ response.ProposedSQL[k] \in {"i", "I"}
                    /\ response.ProposedSQL[k + 1] \in {"n", "N"}
                    /\ response.ProposedSQL[k + 2] \in {"d", "D"}
                    /\ response.ProposedSQL[k + 3] \in {"e", "E"}
                    /\ response.ProposedSQL[k + 4] \in {"x", "X"}
             THEN 5 ELSE 0
        sum == 50 + c + a + o + r + p + i
    IN  IF sum < 10 THEN 10 ELSE IF sum > 100 THEN 100 ELSE sum

\* C24: the confidence score of the result OptimizeQuery stores and returns is
\* clamp(0.5 + c + a + o + r + p + i, 0.1, 1.0), with c = 0.3, 0.1, -0.1 for
\* the complexity simple, medium, complex, a = 0.2 with an anti-pattern,
\* o = 0.15 with more than two opportunities, r = 0.1 and p = 0.1 for a
\* rationale and a plan change of more than 50 bytes, i = 0.05 when the
\* proposed SQL holds "index" in any letter case.
C24_ConfidenceIsReference ==
    (scorer.pc = "done" /\ scorer.pattern.Complexity \in {"simple", "medium", "complex"}) =>
        /\ Len(ret.result) = 1
        /\ ret.result[1].ConfidenceScore = ReferenceConfidence(scorer.pattern, scorer.response)
        /\ \E k \in 1..Len(rows) :
              /\ rows[k].id = ret.id
              /\ rows[k].confidence_score = ReferenceConfidence(scorer.pattern, scorer.response)

\* a result was scored 0.9 for a complex pattern with an anti-pattern and three
\* opportunities, a rationale of 50 bytes (too short to count), a plan change
\* of 51 bytes and SQL that holds INDEX in upper case
C24_Witness ==
    /\ scorer.pc = "done"
    /\ scorer.pattern.Complexity = "complex"
    /\ Len(scorer.pattern.AntiPatterns) = 1
    /\ Len(scorer.pattern.OptimizationOps) = 3
    /\ Len(scorer.response.Rationale) = 50
    /\ Len(scorer.response.ExpectedPlanChange) = 51
    /\ Contains(scorer.response.ProposedSQL, <<"I","N","D","E","X">>)
    /\ Len(ret.result) = 1
    /\ ret.result[1].ConfidenceScore = 90

\* the type-specific phrase of the retrieval query
TypePhrase(type) ==
    IF type = "complex-join" \/ type = "simple-join" THEN <<"JOIN", "optimization", "performance">>
    ELSE IF type = "aggregation" THEN <<"GROUP", "BY", "aggregation", "optimization">>
    ELSE IF type = "pattern-search" THEN <<"LIKE", "pattern", "search", "index", "optimization">>
    ELSE IF type = "full-select" THEN <<"SELECT", "*", "column", "projection", "optimization">>
    ELSE <<"SQL", "query", "optimization", "performance">>

\* C25: the retrieval query buildSearchQuery returns is made of the
\* type-specific phrase, then one phrase for each anti-pattern of the pattern
\* (each of the seven anti-patterns contributes one), then the phrase
\* "<keyword> optimization" for each keyword, in this order.
C25_QueryHasPhrasePerAntiPattern ==
    builder.pc = "done" =>
        LET pattern == builder.pattern
            parts   == builder.queryParts
            n       == Len(pattern.AntiPatterns)
        IN  /\ Len(parts) = 1 + n + Len(pattern.Keywords)
            /\ parts[1] = TypePhrase(pattern.Type)
            /\ \A a \in 1..n : parts[1 + a] # <<>>
            /\ \A k \in DOMAIN pattern.Keywords :
                  parts[1 + n + k] = <<pattern.Keywords[k], "optimization">>

\* C26: the frame of the review operations. A call of AcceptOptimization or
\* RejectOptimization that succeeds changes the status and reviewed_at of the
\* result with its id and nothing else: every other column of that row
\* (confidence_score, optimized_sql, pattern_analysis, created_at, ...) and
\* every other row stay as they are, and no row is added or removed. A call
\* that fails changes no row.
C26_ReviewFrame ==
    [][(ret' # ret /\ ret'.op \in ReviewOps) =>
          /\ Len(rows') = Len(rows)
          /\ \A i \in 1..Len(rows) :
                IF ret'.err = ErrNil /\ rows[i].id = ret'.id
                THEN rows'[i] = [rows[i] EXCEPT !.status = rows'[i].status,
                                                !.reviewed_at = rows'[i].reviewed_at]
                ELSE rows'[i] = rows[i]]_vars

\* a result stored at time 0 was rejected later while another one is pending:
\* it still carries its creation time
C26_Witness ==
    \E i, j \in 1..Len(rows) :
      /\ ret.op = "RejectOptimization"
      /\ ret.err = ErrNil
      /\ rows[i].id = ret.id
      /\ rows[i].status = "rejected"
      /\ rows[i].created_at < rows[i].reviewed_at.Time
      /\ rows[j].status = "pending"

\* C28: reviewed_at is set exactly for the results whose status is accepted or
\* rejected, in the table and in every result a call returns.
C28_ReviewedAtIffReviewed ==
    /\ \A i \in 1..Len(rows) :
          rows[i].reviewed_at.Valid <=> rows[i].status \in {"accepted", "rejected"}
    /\ \A i \in 1..Len(ret.result) :
          ret.result[i].ReviewedAt.Valid <=> ret.result[i].Status \in {"accepted", "rejected"}

\* the table holds an accepted result with reviewed_at and a pending one without
C28_Witness ==
    \E i, j \in 1..Len(rows) :
      /\ rows[i].status = "accepted" /\ rows[i].reviewed_at.Valid
      /\ rows[j].status = "pending" /\ ~rows[j].reviewed_at.Valid

CallsOn(id) == {c \in 1..MaxReviewers : reviews[c].pc # "idle" /\ reviews[c].id = id}

\* C27: concurrent reviews of one pending result. Under every interleaving of
\* the calls, with each guarded UPDATE executed atomically: at most one call
\* on a result has succeeded, and once all calls entered on it have returned,
\* exactly one has returned no error and every other has returned
\* "optimization not found or already reviewed"; the status of the result is
\* the one of the successful call and its reviewed_at is the time that call's
\* statement was executed (later calls have not written it again).
C27_ConcurrentReviewsOneWinner ==
    \A i \in 1..Len(rows) :
      LET calls   == CallsOn(rows[i].id)
          winners == {c \in calls : reviews[c].pc = "done" /\ reviews[c].err = ErrNil}
      IN  /\ Cardinality(winners) <= 1
          /\ (calls # {} /\ \A c \in calls : reviews[c].pc = "done") =>
                \E w \in calls :
                  /\ winners = {w}
                  /\ \A c \in calls \ {w} : reviews[c].err = ErrNotFoundOrReviewed
                  /\ rows[i].status = StatusAfter(reviews[w].op)
                  /\ rows[i].reviewed_at = TimeOf(reviews[w].at)

\* three calls on result 1 have returned, an accept and two rejects; the accept
\* went first, at time 0, a reject was executed at time 1, and the result is
\* accepted with the time 0
C27_Witness ==
    /\ CallsOn(1) = 1..MaxReviewers
    /\ \A c \in 1..MaxReviewers : reviews[c].pc = "done"
    /\ reviews[1].op = "AcceptOptimization" /\ reviews[1].err = ErrNil /\ reviews[1].at = 0
    /\ reviews[2].op = "RejectOptimization" /\ reviews[2].at = 1
    /\ reviews[3].op = "RejectOptimization"
    /\ rows[1].status = "accepted"
    /\ rows[1].reviewed_at = TimeOf(0)

\* each text of the mock generator holds the marker PROPOSED_SQL:, holds no
\* ``` fence, and is refused by parseLLMResponse
MockTextsAreUnfenced ==
    \A name \in DOMAIN mockTemplates :
      /\ Contains(mockTemplates[name], sqlMarker)
      /\ ~Contains(mockTemplates[name], fenceEnd)
      /\ mockParsed[mockTemplates[name]].err

\* C30: with the MockGenerator, OptimizeQuery never succeeds. Each of the five
\* texts the mock can return holds the marker PROPOSED_SQL: and no ``` fence
\* and is refused by parseLLMResponse; every call of OptimizeQuery that reaches
\* the generator returns "failed to parse LLM response: failed to extract
\* optimized SQL from LLM response" and no result, every call returns an error,
\* and the table stays empty.
C30_MockGeneratorNeverStores ==
    /\ MockTextsAreUnfenced
    /\ rows = <<>>
    /\ ret.op = "OptimizeQuery" => (ret.err # ErrNil /\ ret.result = <<>>)
    /\ (ret.op = "OptimizeQuery" /\ env.gen = "ok") =>
          ret.err = <<"failed to parse LLM response",
                      "failed to extract optimized SQL from LLM response">>

\* a call whose prompt was built has got a text of the mock generator and has
\* failed to parse it
C30_Witness ==
    /\ pc = "idle"
    /\ ret.op = "OptimizeQuery"
    /\ env.embed = "ok"
    /\ env.gen = "ok"
    /\ env.genText \in {mockTemplates[name] : name \in DOMAIN mockTemplates}
    /\ ret.err # ErrNil
    /\ ret.err[1] = "failed to parse LLM response"
    /\ rows = <<>>

====
